---- MODULE Spec2Model ----
(***************************************************************************)
(* Model of the S9 hash-board controller HChainCtl                         *)
(* (open/bosminer/src/hal/s9/mod.rs): the work pipeline (send_work,        *)
(* recv_work_result, result-id decoding), the command channel              *)
(* (send_ctl_cmd, recv_ctl_cmd_resp), chip enumeration and the bring-up    *)
(* sequence (init), together with the FPGA IP core's FIFOs and the chip    *)
(* chain as the environment.                                               *)
(*                                                                         *)
(* A 32-bit word is a function 0..31 -> {0,1} (bit 0 the least             *)
(* significant), so that shifts and masks keep the width of u32.  An       *)
(* Option<T> is a sequence of length 0 (None) or 1 (Some).                 *)
(***************************************************************************)
EXTENDS Integers, Sequences, FiniteSets, TLC

VARIABLES
    ctl,                  \* "none" | "live" | "panicked": the HChainCtl instance
    overflow_checks,      \* build setting: does u16 `+=` panic on overflow
    midstate_count_bits,  \* HChainCtl.midstate_count_bits
    work_id,              \* HChainCtl.work_id (u16)
    chip_count,           \* HChainCtl.chip_count
    last_heartbeat_sent,  \* <<>> (None) or <<ms elapsed since the timestamp>>
    plug_pin,             \* plug-detect input: "high" | "low"
    rst_pin,              \* reset output: "high" | "low"
    ctrl_reg,             \* [enable, midstate_cnt]
    baud_reg,
    work_time,
    work_tx_fifo,         \* IP core work TX FIFO (words not yet taken by the chips)
    work_rx_fifo,         \* IP core work RX FIFO
    cmd_tx_fifo,          \* IP core command TX FIFO
    cmd_rx_fifo,          \* IP core command RX FIFO
    chain,                \* the chip chain: what it still has to answer
    pc,                   \* position of the (single) caller thread
    frame,                \* locals of the call in progress
    ret,                  \* what the last finished call returned
    hwlog,                \* hardware actions of the call in progress, in order
    hist                  \* history of the work pipeline (for the properties)

vars == <<ctl, overflow_checks, midstate_count_bits, work_id, chip_count,
          last_heartbeat_sent, plug_pin, rst_pin, ctrl_reg, baud_reg, work_time,
          work_tx_fifo, work_rx_fifo, cmd_tx_fifo, cmd_rx_fifo, chain,
          pc, frame, ret, hwlog, hist>>

----------------------------------------------------------------------------
(* Program constants *)

INACTIVATE_FROM_CHAIN_DELAY_MS == 100
INIT_DELAY_MS == 1000
MAX_CHIPS_ON_CHAIN == 64
WORK_ID_OFFSET == 8
HEARTBEAT_PERIOD_MS == 1000
RX_POLL_SLEEP_MS == 5
WORK_TIME_INIT == 50000
BAUD_DIV_115200 == 27
INIT_VOLTAGE == 6
INACTIVATE_REPEAT == 3
CHIP_ADDR_STEP == 4
U16_BITS == 16
INIT_BAUD == 115200

----------------------------------------------------------------------------
(* 32-bit words *)

Pow2(n) == 2 ^ n

BitIdx == 0 .. 31

Word == [BitIdx -> {0, 1}]

\* The word of a natural below 2^31.
U32(n) == [i \in BitIdx |-> IF i = 31 THEN 0 ELSE (n \div Pow2(i)) % 2]

\* The word n with bit 31 set as well.
U32Top(n) == [i \in BitIdx |-> IF i = 31 THEN 1 ELSE (n \div Pow2(i)) % 2]

RECURSIVE LowNat(_, _)
\* The natural held by bits 0 .. k-1 of w (k <= 31).
LowNat(w, k) == IF k = 0 THEN 0 ELSE LowNat(w, k - 1) + w[k - 1] * Pow2(k - 1)

\* `as usize` of a word whose bit 31 is clear.
ToNat(w) == LowNat(w, 31)

\* w >> n and w << n on u32 (n < 32).
Shr(w, n) == [i \in BitIdx |-> IF i + n <= 31 THEN w[i + n] ELSE 0]

Shl(w, n) == [i \in BitIdx |-> IF i >= n THEN w[i - n] ELSE 0]

BitAnd(a, b) == [i \in BitIdx |-> a[i] * b[i]]

BitOr(a, b) == [i \in BitIdx |-> IF a[i] + b[i] > 0 THEN 1 ELSE 0]

\* w - 1 on u32 for w # 0: the borrow runs up to the lowest set bit.
Sub1(w) ==
    LET k == CHOOSE j \in BitIdx : w[j] = 1 /\ \A l \in 0 .. (j - 1) : w[l] = 0
    IN  [i \in BitIdx |-> IF i < k THEN 1 ELSE IF i = k THEN 0 ELSE w[i]]

\* Byte k (0 .. 3) of w, least significant first: LittleEndian::write_u32.
ByteOf(w, k) == LowNat(Shr(w, 8 * k), 8)

LeBytes(w) == <<ByteOf(w, 0), ByteOf(w, 1), ByteOf(w, 2), ByteOf(w, 3)>>

None == <<>>

Some(v) == <<v>>

----------------------------------------------------------------------------
(* Result-id decoding helpers *)

\* A decoder that forgets the midstate bits of the shift.
MutWorkIdNoMidstateShift(result_id) == Shr(result_id, WORK_ID_OFFSET)

get_work_id_from_result_id(result_id) ==
    Shr(Shr(result_id, WORK_ID_OFFSET), midstate_count_bits)

\* A decoder that masks the unshifted word.
MutMidstateIdxNoShift(result_id) ==
    ToNat(BitAnd(result_id, Sub1(Shl(U32(1), midstate_count_bits))))

get_midstate_idx_from_result_id(result_id) ==
    ToNat(BitAnd(Shr(result_id, WORK_ID_OFFSET),
                 Sub1(Shl(U32(1), midstate_count_bits))))

get_solution_idx_from_result_id(result_id) ==
    ToNat(BitAnd(result_id, Sub1(Shl(U32(1), WORK_ID_OFFSET))))

----------------------------------------------------------------------------
(* Model bounds *)

\* Depth of the IP core's work TX FIFO, in words.
WorkTxDepth == 2
\* Most midstates a MiningWork handed to send_work carries.
MaxMidstates == 4
\* Most operations the caller invokes in one run.
MaxCalls == 3
\* Most constructions that succeed in one run.
MaxMappings == 2
\* Most words the hardware pushes into the work RX FIFO in one run.
MaxRxWords == 4
\* Length of one idle period of the caller, in ms.
TickMs == 1000

----------------------------------------------------------------------------
(* Return values: Result<_, io::Error>, or a panic *)

NoRet == [op |-> "", status |-> "none", val |-> None, err |-> ""]

Ok(op, v) == [op |-> op, status |-> "ok", val |-> v, err |-> ""]

Err(op, e) == [op |-> op, status |-> "err", val |-> None, err |-> e]

Panic(op, e) == [op |-> op, status |-> "panic", val |-> None, err |-> e]

NoFrame == [op |-> ""]

----------------------------------------------------------------------------
(* Time.  last_heartbeat_sent holds the time elapsed since the timestamp,   *)
(* which is all the code reads of it; it saturates at HEARTBEAT_PERIOD_MS   *)
(* ("one second or more").                                                 *)

Min(a, b) == IF a <= b THEN a ELSE b

Elapse(t, ms) ==
    IF t = None THEN None ELSE Some(Min(t[1] + ms, HEARTBEAT_PERIOD_MS))

\* A ticker that sends on every call once the timestamp is set.
MutHeartbeatAlwaysDue(t) == TRUE

\* A ticker that keeps its timestamp and never sends.
MutHeartbeatNeverDue(t) == FALSE

\* `elapsed >= Duration::from_secs(1)`
HeartbeatDue(t) == t[1] >= HEARTBEAT_PERIOD_MS

\* What the clock and the voltage controller may answer to one tick.
HbAnswers == {"ok", "time_err", "io_err"}

\* send_voltage_ctrl_heart_beat: the new timestamp, whether a heartbeat went
\* to the voltage controller, and the result.
send_voltage_ctrl_heart_beat(t, answer) ==
    LET t0 == IF t = None THEN Some(0) ELSE t
    IN  IF answer = "time_err"
        THEN [last |-> t0, sent |-> FALSE, err |-> "SystemTime"]
        ELSE IF HeartbeatDue(t0)
        THEN [last |-> Some(0), sent |-> TRUE,
              err |-> IF answer = "io_err" THEN "VoltageCtrl" ELSE ""]
        ELSE [last |-> t0, sent |-> FALSE, err |-> ""]

\* The answers that make a difference to a tick from timestamp t.
HbAnswersFor(t) ==
    IF HeartbeatDue(IF t = None THEN Some(0) ELSE t)
    THEN HbAnswers ELSE HbAnswers \ {"io_err"}

\* One entry of hwlog: the procedure `by` performed `act` with argument `arg`.
Hw(by, act, arg) == [by |-> by, act |-> act, arg |-> arg]

\* The heartbeat tick as `by` calls it, and the heartbeat it sends.
HbLog(by, hb) ==
    <<Hw(by, "send_voltage_ctrl_heart_beat", 0)>>
        \o (IF hb.sent
            THEN <<Hw("send_voltage_ctrl_heart_beat", "send_heart_beat", 0)>>
            ELSE <<>>)

----------------------------------------------------------------------------
(* History kept for the properties; the program never reads it. *)

NoHist ==
    [calls     |-> 0,       \* operations invoked so far in the run
     sends     |-> 0,       \* send_work calls since construction, up to 2
     sw_prev   |-> NoRet,   \* what the send_work call before the last returned
     sw_last   |-> NoRet,   \* what the last send_work call returned
     tx_log    |-> <<>>,    \* send_work in progress: [word, full] per FIFO write
     rx_stream |-> <<>>,    \* every word the hardware pushed into work RX
     rx_taken  |-> 0,       \* words read from work RX so far
     rx_before |-> 0,       \* rx_taken when the last recv_work_result began
     rx_avail  |-> 0,       \* words in work RX when the last recv_work_result began
     polls     |-> <<>>,    \* last recv_work_result: was work RX empty, per poll
     cmd_stream |-> <<>>,   \* every word the hardware pushed into cmd RX
     cmd_taken |-> 0,       \* words read from cmd RX so far
     cmd_before |-> 0,      \* cmd_taken when the last recv_ctl_cmd_resp began
     cmd_polls |-> <<>>,    \* last recv_ctl_cmd_resp: was cmd RX empty, per poll
     resps     |-> 0,       \* responses enumerate_chips received so far
     enum_done |-> FALSE,   \* enumerate_chips's receive loop ended on Ok(None)
     enum_ret  |-> NoRet,   \* what enumerate_chips returned
     mappings  |-> 0,       \* mappings of the register block the process holds
     idle      |-> 0,       \* ms the caller stayed idle since the last call
     hb_gap    |-> 0,       \* idle when the last send_work / recv_work_result began
     hb_prev   |-> -1,      \* heartbeats sent by the call before it, if it succeeded
     win_first |-> -1,      \* work_id returned by the first of the last run of
                            \* consecutive successful send_work calls
     win_len   |-> 0,       \* length of that run
     regs      |-> <<>>,    \* the registers when the last direct call of
                            \* ip_core_init or of a register helper began
     absent    |-> FALSE,   \* the last call returned Ok(None)
     after_absent |-> FALSE] \* the call before the last one returned Ok(None)

----------------------------------------------------------------------------
(* Construction *)

MidstateCounts == {0, 1, 2}   \* MIDSTATE_CNTW::{ONE, TWO, FOUR}._bits()

NewFaults == {"none", "plug_pin", "rst_pin", "open", "mmap"}

\* A new() that acquires the reset pin before it looks at the plug pin.
MutNewRstPinFirst(fault) ==
    LET steps == <<Hw("new", "get_pin_in", 0), Hw("new", "get_pin_out", 0),
                   Hw("new", "plug_is_low", 0), Hw("mmap", "open_dev_mem", 0),
                   Hw("mmap", "mmap", 0)>>
    IN  IF fault = "plug_pin" THEN SubSeq(steps, 1, 1)
        ELSE IF fault = "rst_pin" THEN SubSeq(steps, 1, 2)
        ELSE IF plug_pin = "low" THEN SubSeq(steps, 1, 3)
        ELSE IF fault = "open" THEN SubSeq(steps, 1, 4)
        ELSE steps

\* The steps of new() up to the fault, and its result.
NewSteps(fault) ==
    LET steps == <<Hw("new", "get_pin_in", 0), Hw("new", "plug_is_low", 0),
                   Hw("new", "get_pin_out", 0), Hw("mmap", "open_dev_mem", 0),
                   Hw("mmap", "mmap", 0)>>
    IN  IF fault = "plug_pin" THEN SubSeq(steps, 1, 1)
        ELSE IF plug_pin = "low" THEN SubSeq(steps, 1, 2)
        ELSE IF fault = "rst_pin" THEN SubSeq(steps, 1, 3)
        ELSE IF fault = "open" THEN SubSeq(steps, 1, 4)
        ELSE steps

NewResult(fault) ==
    IF fault = "plug_pin" THEN Err("new", "GpioFailure")
    ELSE IF plug_pin = "low" THEN Err("new", "NotPresent")
    ELSE IF fault = "rst_pin" THEN Err("new", "GpioFailure")
    ELSE IF fault \in {"open", "mmap"} THEN Err("new", "MapFailure")
    ELSE Ok("new", None)

New(midstate_count, fault) ==
    /\ ctl = "none" /\ pc = "idle"
    /\ hist.mappings < MaxMappings
    /\ hwlog' = NewSteps(fault)
    /\ ret' = NewResult(fault)
    /\ IF NewResult(fault).status = "ok"
       THEN /\ ctl' = "live"
            /\ work_id' = 0
            /\ chip_count' = 0
            /\ midstate_count_bits' = midstate_count
            /\ last_heartbeat_sent' = None
            /\ hist' = [NoHist EXCEPT !.calls = hist.calls,
                                      !.rx_stream = hist.rx_stream,
                                      !.rx_taken = hist.rx_taken,
                                      !.mappings = hist.mappings + 1]
       ELSE UNCHANGED <<ctl, work_id, chip_count, midstate_count_bits,
                        last_heartbeat_sent, hist>>
    /\ frame' = NoFrame
    /\ UNCHANGED <<overflow_checks, plug_pin, rst_pin, ctrl_reg, baud_reg,
                   work_time, work_tx_fifo, work_rx_fifo, cmd_tx_fifo,
                   cmd_rx_fifo, chain, pc>>

\* A mapping that munmap releases when the controller goes.
MutDropUnmaps(n) == n - 1

\* The mappings left once a controller is dropped: HChainCtl has no Drop
\* implementation and holds the mapping as plain references.
DropMappings(n) == n

\* The controller goes out of scope.  The pins, the registers and the chips
\* stay as they are.
Drop ==
    /\ ctl = "live" /\ pc = "idle"
    /\ ctl' = "none"
    /\ ret' = Ok("drop", None)
    /\ hwlog' = <<>>
    /\ frame' = NoFrame
    /\ hist' = [hist EXCEPT !.mappings = DropMappings(@)]
    /\ UNCHANGED <<overflow_checks, midstate_count_bits, work_id, chip_count,
                   last_heartbeat_sent, plug_pin, rst_pin, ctrl_reg, baud_reg,
                   work_time, work_tx_fifo, work_rx_fifo, cmd_tx_fifo,
                   cmd_rx_fifo, chain, pc>>

----------------------------------------------------------------------------
(* Work submission *)

\* A U256 is its four u64 limbs, least significant first, each limb the pair
\* of its low and high 32-bit halves.
Midstate(tag) ==
    [i \in 1 .. 4 |-> [lo |-> U32(16 * tag + 2 * (i - 1)),
                       hi |-> U32(16 * tag + 2 * (i - 1) + 1)]]

MiningWork(n, v) ==
    [nbits |-> U32(400 + v), ntime |-> U32(500 + v),
     merkel_root_lsw |-> U32Top(600 + v),
     midstates |-> [i \in 1 .. n |-> Midstate(i + 8 * v)]]

WorkVariants == {0, 1}

Works == {MiningWork(n, v) : n \in 0 .. MaxMidstates, v \in WorkVariants}

\* The memory of a U256 read as u32s on the little-endian target.
u256_as_u32_slice(src) ==
    [k \in 1 .. 8 |-> IF k % 2 = 1 THEN src[(k + 1) \div 2].lo
                                   ELSE src[k \div 2].hi]

Reverse(s) == [k \in 1 .. Len(s) |-> s[Len(s) + 1 - k]]

\* Midstate words in memory order, not reversed.
MutMidstateWordsForward(midstate) == u256_as_u32_slice(midstate)

\* `for midstate_word in midstate.iter().rev()`
MidstateWords(midstate) == Reverse(u256_as_u32_slice(midstate))

RECURSIVE AllMidstateWords(_)
AllMidstateWords(midstates) ==
    IF midstates = <<>> THEN <<>>
    ELSE MidstateWords(Head(midstates)) \o AllMidstateWords(Tail(midstates))

\* The words send_work writes, in order.
SendWorkWords(id, work) ==
    <<U32(id), work.nbits, work.ntime, work.merkel_root_lsw>>
        \o AllMidstateWords(work.midstates)

\* A counter that always steps by one.
MutNextWorkIdStepOne(id) == (id + 1) % Pow2(U16_BITS)

\* A counter that steps by twice the number of midstates.
MutNextWorkIdDoubleStep(id) ==
    (id + 2 * Pow2(midstate_count_bits)) % Pow2(U16_BITS)

\* `self.work_id += 1 << self.midstate_count_bits` where it does not panic.
NextWorkId(id) == (id + Pow2(midstate_count_bits)) % Pow2(U16_BITS)

\* Does the u16 addition overflow.
NextWorkIdOverflows(id) == id + Pow2(midstate_count_bits) >= Pow2(U16_BITS)

\* A FIFO write that does not wait for room.
MutWorkTxNeverFull == FALSE

\* stat_reg.work_tx_full
work_tx_full == Len(work_tx_fifo) >= WorkTxDepth

\* Heartbeats sent according to a call's log.
Beats(log) ==
    Cardinality({i \in 1 .. Len(log) : log[i].act = "send_heart_beat"})

\* The history when a send_work or recv_work_result begins: what the call
\* before it sent, if that was one of the two and succeeded, and how long
\* the caller stayed idle in between.
BeatHist ==
    [hist EXCEPT !.hb_prev = IF ret.status = "ok"
                                  /\ ret.op \in {"send_work", "recv_work_result"}
                             THEN Beats(hwlog) ELSE -1,
                 !.hb_gap = hist.idle,
                 !.idle = 0]

\* The history h after a send_work that returned r: the run of consecutive
\* successful calls grows, or ends.
WindowHist(h, r) ==
    IF r.status # "ok" THEN [h EXCEPT !.win_first = -1, !.win_len = 0]
    ELSE IF h.win_len = 0
    THEN [h EXCEPT !.win_first = ToNat(r.val[1]), !.win_len = 1]
    ELSE [h EXCEPT !.win_len = @ + 1]

SendWorkHist(r) ==
    WindowHist([BeatHist EXCEPT !.calls = @ + 1, !.sends = Min(@ + 1, 2),
                                !.sw_prev = hist.sw_last, !.sw_last = r,
                                !.absent = FALSE], r)

\* send_work up to its first FIFO write: next_work_id, then the heartbeat tick.
SendWorkCall(work, answer) ==
    /\ ctl = "live" /\ pc = "idle" /\ hist.calls < MaxCalls
    /\ answer \in HbAnswersFor(last_heartbeat_sent)
    /\ UNCHANGED <<overflow_checks, midstate_count_bits, chip_count, plug_pin,
                   rst_pin, ctrl_reg, baud_reg, work_time, work_tx_fifo,
                   work_rx_fifo, cmd_tx_fifo, cmd_rx_fifo, chain>>
    /\ IF NextWorkIdOverflows(work_id) /\ overflow_checks
       THEN /\ ctl' = "panicked"
            /\ pc' = "panicked"
            /\ ret' = Panic("send_work", "attempt to add with overflow")
            /\ hist' = [SendWorkHist(ret') EXCEPT !.tx_log = <<>>]
            /\ frame' = NoFrame
            /\ hwlog' = <<>>
            /\ UNCHANGED <<work_id, last_heartbeat_sent>>
       ELSE LET hb == send_voltage_ctrl_heart_beat(last_heartbeat_sent, answer)
            IN  /\ ctl' = ctl
                /\ work_id' = NextWorkId(work_id)
                /\ last_heartbeat_sent' = hb.last
                /\ hwlog' = HbLog("send_work", hb)
                /\ IF hb.err # ""
                   THEN /\ ret' = Err("send_work", hb.err)
                        /\ hist' = [SendWorkHist(ret') EXCEPT !.tx_log = <<>>]
                        /\ pc' = "idle"
                        /\ frame' = NoFrame
                   ELSE /\ pc' = "send_work_write"
                        /\ frame' = [op |-> "send_work", work |-> work,
                                     work_id |-> work_id,
                                     words |-> SendWorkWords(work_id, work),
                                     idx |-> 1]
                        /\ hist' = [BeatHist EXCEPT !.calls = @ + 1,
                                                    !.tx_log = <<>>,
                                                    !.absent = FALSE]
                        /\ ret' = NoRet

\* write_to_work_tx_fifo of the next word; after the last one send_work
\* returns its work_id.
SendWorkWrite ==
    /\ pc = "send_work_write"
    /\ ~work_tx_full
    /\ work_tx_fifo' = Append(work_tx_fifo, frame.words[frame.idx])
    /\ hwlog' = Append(hwlog, Hw("send_work", "write_to_work_tx_fifo", frame.idx))
    /\ LET logged == Append(hist.tx_log,
                            [word |-> frame.words[frame.idx],
                             full |-> Len(work_tx_fifo) >= WorkTxDepth])
       IN  IF frame.idx = Len(frame.words)
           THEN /\ ret' = Ok("send_work", Some(U32(frame.work_id)))
                /\ hist' = WindowHist([hist EXCEPT !.sends = Min(@ + 1, 2),
                                                   !.sw_prev = hist.sw_last,
                                                   !.sw_last = ret',
                                                   !.tx_log = logged], ret')
                /\ pc' = "idle"
                /\ frame' = [frame EXCEPT !.idx = @ + 1]
           ELSE /\ hist' = [hist EXCEPT !.tx_log = logged]
                /\ frame' = [frame EXCEPT !.idx = @ + 1]
                /\ UNCHANGED <<ret, pc>>
    /\ UNCHANGED <<ctl, overflow_checks, midstate_count_bits, work_id, chip_count,
                   last_heartbeat_sent, plug_pin, rst_pin, ctrl_reg, baud_reg,
                   work_time, work_rx_fifo, cmd_tx_fifo, cmd_rx_fifo, chain>>

\* The chips take the oldest word of the work TX FIFO.
HwWorkTxTake ==
    /\ work_tx_fifo # <<>>
    /\ work_tx_fifo' = Tail(work_tx_fifo)
    /\ UNCHANGED <<ctl, overflow_checks, midstate_count_bits, work_id, chip_count,
                   last_heartbeat_sent, plug_pin, rst_pin, ctrl_reg, baud_reg,
                   work_time, work_rx_fifo, cmd_tx_fifo, cmd_rx_fifo, chain,
                   pc, frame, ret, hwlog, hist>>

\* 2^16 / (1 << midstate_count_bits): the submissions after which the
\* work_id counter is back where it was.
WrapPeriod == Pow2(U16_BITS) \div Pow2(midstate_count_bits)

\* send_work of a work with one midstate per configured midstate, from its
\* call to its return, on chips that take the words as fast as they are
\* written: the work TX FIFO is empty before and after.
\* The log has one entry for all the FIFO writes, with their number.  The
\* clock and the voltage controller may fail in the first MaxCalls calls of
\* a run, and a run ends with a full period of successful calls.
SendWork(answer) ==
    /\ ctl = "live" /\ pc = "idle"
    /\ work_tx_fifo = <<>>
    /\ hist.win_len < WrapPeriod
    /\ answer \in HbAnswersFor(last_heartbeat_sent)
    /\ answer # "ok" => hist.calls < MaxCalls
    /\ frame' = NoFrame
    /\ IF NextWorkIdOverflows(work_id) /\ overflow_checks
       THEN /\ ctl' = "panicked"
            /\ pc' = "panicked"
            /\ ret' = Panic("send_work", "attempt to add with overflow")
            /\ hwlog' = <<>>
            /\ UNCHANGED <<work_id, last_heartbeat_sent>>
       ELSE LET hb == send_voltage_ctrl_heart_beat(last_heartbeat_sent, answer)
                writes == 4 + 8 * Pow2(midstate_count_bits)
            IN  /\ work_id' = NextWorkId(work_id)
                /\ last_heartbeat_sent' = hb.last
                /\ ret' = IF hb.err # "" THEN Err("send_work", hb.err)
                           ELSE Ok("send_work", Some(U32(work_id)))
                /\ hwlog' = HbLog("send_work", hb)
                       \o (IF hb.err # "" THEN <<>>
                           ELSE <<Hw("send_work", "write_to_work_tx_fifo",
                                     writes)>>)
                /\ UNCHANGED <<ctl, pc>>
    /\ hist' = [SendWorkHist(ret') EXCEPT !.tx_log = <<>>]
    /\ UNCHANGED <<overflow_checks, midstate_count_bits, chip_count, plug_pin,
                   rst_pin, ctrl_reg, baud_reg, work_time, work_tx_fifo,
                   work_rx_fifo, cmd_tx_fifo, cmd_rx_fifo, chain>>

----------------------------------------------------------------------------
(* Work results *)

\* 0x00ffffff
RESULT_ID_MASK == U32(16777215)

\* The nonce of the k-th result (k = 0, 1, ...): all different, the first
\* with bit 31 set.
NonceOf(k) == IF k = 0 THEN U32Top(9) ELSE U32(7 + k)

\* 0x00123502, and 0xff0003ff: every midstate and solution bit and the top byte set
ResultWords == {U32(1193218), U32Top(2130707455)}

\* A read that pops two words for one.
MutReadPopsTwo(fifo, slept) ==
    IF fifo # <<>>
    THEN [kind |-> "word", word |-> Head(fifo),
          rest |-> IF Len(fifo) > 1 THEN Tail(Tail(fifo)) ELSE <<>>]
    ELSE IF slept THEN [kind |-> "timeout", word |-> U32(0), rest |-> fifo]
    ELSE [kind |-> "sleep", word |-> U32(0), rest |-> fifo]

\* read_from_work_rx_fifo / read_from_cmd_rx_fifo on a FIFO holding `fifo`:
\* before the 5 ms sleep (slept = FALSE) or after it.
ReadFromRxFifo(fifo, slept) ==
    IF fifo # <<>>
    THEN [kind |-> "word", word |-> Head(fifo), rest |-> Tail(fifo)]
    ELSE IF slept THEN [kind |-> "timeout", word |-> U32(0), rest |-> fifo]
    ELSE [kind |-> "sleep", word |-> U32(0), rest |-> fifo]

\* A result that keeps the raw second word.
MutResultIdUnmasked(word2) == word2

\* `result_id: word2 & 0xffffffu32`
ResultId(word2) == BitAnd(word2, RESULT_ID_MASK)

MiningWorkResult(nonce, word2) ==
    [nonce |-> nonce, ntime |-> None,
     midstate_idx |-> get_midstate_idx_from_result_id(word2),
     result_id |-> ResultId(word2)]

\* A second-word timeout swallowed like a first-word one.
MutSecondTimeout == Ok("recv_work_result", None)

\* `let word2 = self.read_from_work_rx_fifo()?` on a timeout
RecvSecondTimeout == Err("recv_work_result", "TimedOut")

\* recv_work_result from its second read on: the next position, the FIFO,
\* the result and the polls made.
RecvSecond(nonce, fifo, slept) ==
    LET r == ReadFromRxFifo(fifo, slept)
    IN  IF r.kind = "word"
        THEN [pc |-> "idle", fifo |-> r.rest, taken |-> 1,
              polls |-> <<fifo = <<>>>>, nonce |-> nonce,
              ret |-> Ok("recv_work_result",
                         Some(Some(MiningWorkResult(nonce, r.word))))]
        ELSE IF r.kind = "sleep"
        THEN [pc |-> "recv_sleep2", fifo |-> fifo, taken |-> 0,
              polls |-> <<fifo = <<>>>>, nonce |-> nonce, ret |-> NoRet]
        ELSE [pc |-> "idle", fifo |-> fifo, taken |-> 0,
              polls |-> <<fifo = <<>>>>, nonce |-> nonce,
              ret |-> RecvSecondTimeout]

\* recv_work_result from its first read on.
RecvFirst(fifo, slept) ==
    LET r == ReadFromRxFifo(fifo, slept)
    IN  IF r.kind = "word"
        THEN LET n == RecvSecond(r.word, r.rest, FALSE)
             IN  [n EXCEPT !.taken = @ + 1, !.polls = <<fifo = <<>>>> \o @]
        ELSE IF r.kind = "sleep"
        THEN [pc |-> "recv_sleep1", fifo |-> fifo, taken |-> 0,
              polls |-> <<fifo = <<>>>>, nonce |-> U32(0), ret |-> NoRet]
        ELSE [pc |-> "idle", fifo |-> fifo, taken |-> 0,
              polls |-> <<fifo = <<>>>>, nonce |-> U32(0),
              ret |-> Ok("recv_work_result", Some(None))]

\* The state after a part of recv_work_result that ended as `n`.
RecvApply(n) ==
    /\ pc' = n.pc
    /\ work_rx_fifo' = n.fifo
    /\ ret' = n.ret
    /\ frame' = IF n.pc = "idle" THEN NoFrame
                ELSE [op |-> "recv_work_result", nonce |-> n.nonce]
    /\ hist' = [hist EXCEPT !.rx_taken = @ + n.taken, !.polls = @ \o n.polls,
                            !.absent = (n.ret = Ok("recv_work_result", Some(None)))]
    /\ UNCHANGED <<ctl, overflow_checks, midstate_count_bits, work_id, chip_count,
                   plug_pin, rst_pin, ctrl_reg, baud_reg, work_time,
                   work_tx_fifo, cmd_tx_fifo, cmd_rx_fifo, chain>>

\* recv_work_result up to its return or its first sleep: the heartbeat
\* tick, then the first read (and the second, when the first finds a word).
RecvWorkResultCall(answer) ==
    /\ ctl = "live" /\ pc = "idle" /\ hist.calls < MaxCalls
    /\ answer \in HbAnswersFor(last_heartbeat_sent)
    /\ LET hb == send_voltage_ctrl_heart_beat(last_heartbeat_sent, answer)
           n  == RecvFirst(work_rx_fifo, FALSE)
           h  == [BeatHist EXCEPT !.calls = @ + 1, !.polls = <<>>,
                              !.rx_before = hist.rx_taken,
                              !.rx_avail = Len(work_rx_fifo),
                              !.after_absent = hist.absent]
       IN  /\ hwlog' = HbLog("recv_work_result", hb)
           /\ IF hb.err # ""
              THEN /\ ret' = Err("recv_work_result", hb.err)
                   /\ last_heartbeat_sent' = hb.last
                   /\ hist' = [h EXCEPT !.absent = FALSE]
                   /\ frame' = NoFrame
                   /\ UNCHANGED <<ctl, overflow_checks, midstate_count_bits,
                                  work_id, chip_count, plug_pin, rst_pin,
                                  ctrl_reg, baud_reg, work_time, work_tx_fifo,
                                  work_rx_fifo, cmd_tx_fifo, cmd_rx_fifo, chain,
                                  pc>>
              ELSE /\ last_heartbeat_sent' =
                          IF n.pc = "idle" THEN hb.last
                          ELSE Elapse(hb.last, RX_POLL_SLEEP_MS)
                   /\ pc' = n.pc
                   /\ work_rx_fifo' = n.fifo
                   /\ ret' = n.ret
                   /\ frame' = IF n.pc = "idle" THEN NoFrame
                               ELSE [op |-> "recv_work_result", nonce |-> n.nonce]
                   /\ hist' = [h EXCEPT !.rx_taken = @ + n.taken,
                                        !.polls = n.polls,
                                        !.absent = (n.ret = Ok("recv_work_result",
                                                               Some(None)))]
                   /\ UNCHANGED <<ctl, overflow_checks, midstate_count_bits,
                                  work_id, chip_count, plug_pin, rst_pin,
                                  ctrl_reg, baud_reg, work_time, work_tx_fifo,
                                  cmd_tx_fifo, cmd_rx_fifo, chain>>

\* The first read's second poll, after its 5 ms sleep.
RecvAfterSleep1 ==
    /\ pc = "recv_sleep1"
    /\ LET n == RecvFirst(work_rx_fifo, TRUE)
       IN  /\ RecvApply(n)
           /\ last_heartbeat_sent' =
                  IF n.pc = "idle" THEN last_heartbeat_sent
                  ELSE Elapse(last_heartbeat_sent, RX_POLL_SLEEP_MS)
    /\ UNCHANGED hwlog

\* The second read's second poll, after its 5 ms sleep.
RecvAfterSleep2 ==
    /\ pc = "recv_sleep2"
    /\ RecvApply(RecvSecond(frame.nonce, work_rx_fifo, TRUE))
    /\ UNCHANGED <<last_heartbeat_sent, hwlog>>

\* (w << (8 + mbits)) | (m << 8) | s: the fields do not overlap
\* (m < 1 << mbits, s < 256).
ResultIdLayout(w, m, s) ==
    U32(w * Pow2(WORK_ID_OFFSET + midstate_count_bits)
        + m * Pow2(WORK_ID_OFFSET) + s)

\* The result ids laid out for the work_id the last send_work returned: every
\* midstate index, the least and the greatest solution index.
LayoutWords ==
    IF hist.sw_last.op = "send_work" /\ hist.sw_last.status = "ok"
    THEN {ResultIdLayout(ToNat(hist.sw_last.val[1]), m, s) :
              m \in 0 .. Pow2(midstate_count_bits) - 1, s \in {0, 255}}
    ELSE {}

\* What the IP core may push next: the nonce of the next result, or the
\* result id that completes the current one.
NextRxWords ==
    IF Len(hist.rx_stream) % 2 = 0
    THEN {NonceOf(Len(hist.rx_stream) \div 2)}
    ELSE ResultWords \cup LayoutWords

get_work_id_from_result(result) == get_work_id_from_result_id(result.result_id)

\* get_work_id_from_result is applied to the result recv_work_result has just
\* returned.
GetWorkIdFromResult ==
    /\ ctl = "live" /\ pc = "idle"
    /\ ret.op = "recv_work_result" /\ ret.status = "ok" /\ ret.val # Some(None)
    /\ ret' = Ok("get_work_id_from_result",
                 Some(get_work_id_from_result(ret.val[1][1])))
    /\ UNCHANGED <<ctl, overflow_checks, midstate_count_bits, work_id, chip_count,
                   last_heartbeat_sent, plug_pin, rst_pin, ctrl_reg, baud_reg,
                   work_time, work_tx_fifo, work_rx_fifo, cmd_tx_fifo,
                   cmd_rx_fifo, chain, pc, frame, hwlog, hist>>

\* The IP core pushes the next word of the result stream: a nonce, then its
\* result id.
HwWorkRxPush(w) ==
    /\ Len(hist.rx_stream) < MaxRxWords
    /\ w \in NextRxWords
    /\ work_rx_fifo' = Append(work_rx_fifo, w)
    /\ hist' = [hist EXCEPT !.rx_stream = Append(@, w)]
    /\ UNCHANGED <<ctl, overflow_checks, midstate_count_bits, work_id, chip_count,
                   last_heartbeat_sent, plug_pin, rst_pin, ctrl_reg, baud_reg,
                   work_time, work_tx_fifo, cmd_tx_fifo, cmd_rx_fifo, chain,
                   pc, frame, ret, hwlog>>

\* The caller stays idle for TickMs.
Tick ==
    /\ pc = "idle" /\ ctl = "live"
    /\ last_heartbeat_sent # None
    /\ last_heartbeat_sent' = Elapse(last_heartbeat_sent, TickMs)
    /\ hist' = [hist EXCEPT !.idle = Min(@ + TickMs, HEARTBEAT_PERIOD_MS + 1)]
    /\ <<last_heartbeat_sent, hist>>' # <<last_heartbeat_sent, hist>>
    /\ UNCHANGED <<ctl, overflow_checks, midstate_count_bits, work_id, chip_count,
                   plug_pin, rst_pin, ctrl_reg, baud_reg, work_time,
                   work_tx_fifo, work_rx_fifo, cmd_tx_fifo, cmd_rx_fifo, chain,
                   pc, frame, ret, hwlog>>

----------------------------------------------------------------------------
(* Command channel: responses *)

\* Depth of the IP core's command TX FIFO, in commands.
CmdTxDepth == 1
\* Depth of the IP core's command RX FIFO, in words.
CmdRxDepth == 2
\* Most words the hardware pushes into the command RX FIFO when
\* recv_ctl_cmd_resp is exercised on its own.
MaxCmdRxWords == 4

\* A word read most significant byte first.
MutWordOfBytesBigEndian(b) ==
    [i \in BitIdx |-> (b[4 - (i \div 8)] \div Pow2(i % 8)) % 2]

\* LittleEndian::read_u32 of the four bytes b.
WordOfBytes(b) == [i \in BitIdx |-> (b[(i \div 8) + 1] \div Pow2(i % 8)) % 2]

\* The bm1387 codec is not among the sources: a GetAddressReg frame is taken
\* to be six bytes, the chip revision in the first two and addressing
\* metadata in the other four, and a revision the codec does not know makes
\* unpacking fail.
ChipRevBm1387 == <<19, 135>>

ChipRevOther == <<19, 133>>

ChipRevUnknown == <<255, 255>>

\* bm1387::GetAddressReg::unpack_from_slice
GetAddressRegUnpack(bytes) ==
    IF Len(bytes) = 6 /\ SubSeq(bytes, 1, 2) \in {ChipRevBm1387, ChipRevOther}
    THEN [ok |-> TRUE,
          val |-> [chip_rev |-> SubSeq(bytes, 1, 2), meta |-> SubSeq(bytes, 3, 6)]]
    ELSE [ok |-> FALSE, val |-> [chip_rev |-> <<>>, meta |-> <<>>]]

\* A frame cut from the end of the buffer.
MutCmdRespFrameTail(cmd_resp) == SubSeq(cmd_resp, 3, 8)

\* `&cmd_resp[..6]`
CmdRespFrame(cmd_resp) == SubSeq(cmd_resp, 1, 6)

\* recv_ctl_cmd_resp once both words are read: the 8-byte buffer, unpacked.
CtlCmdResp(word1, word2) ==
    LET cmd_resp == LeBytes(word1) \o LeBytes(word2)
        u == GetAddressRegUnpack(CmdRespFrame(cmd_resp))
    IN  IF u.ok THEN Ok("recv_ctl_cmd_resp", Some(Some(u.val)))
        ELSE Err("recv_ctl_cmd_resp", "Unpacking")

\* A second-word timeout swallowed like a first-word one.
MutCtlSecondTimeout == Ok("recv_ctl_cmd_resp", Some(None))

\* `let resp_word = self.read_from_cmd_rx_fifo()?` on a timeout
CtlSecondTimeout == Err("recv_ctl_cmd_resp", "TimedOut")

\* recv_ctl_cmd_resp from its second read on.
RecvCtlSecond(word1, fifo, slept) ==
    LET r == ReadFromRxFifo(fifo, slept)
    IN  IF r.kind = "word"
        THEN [pc |-> "idle", fifo |-> r.rest, taken |-> 1,
              polls |-> <<fifo = <<>>>>, word1 |-> word1,
              ret |-> CtlCmdResp(word1, r.word)]
        ELSE IF r.kind = "sleep"
        THEN [pc |-> "ctl_recv_sleep2", fifo |-> fifo, taken |-> 0,
              polls |-> <<fifo = <<>>>>, word1 |-> word1, ret |-> NoRet]
        ELSE [pc |-> "idle", fifo |-> fifo, taken |-> 0,
              polls |-> <<fifo = <<>>>>, word1 |-> word1,
              ret |-> CtlSecondTimeout]

\* recv_ctl_cmd_resp from its first read on.
RecvCtlFirst(fifo, slept) ==
    LET r == ReadFromRxFifo(fifo, slept)
    IN  IF r.kind = "word"
        THEN LET n == RecvCtlSecond(r.word, r.rest, FALSE)
             IN  [n EXCEPT !.taken = @ + 1, !.polls = <<fifo = <<>>>> \o @]
        ELSE IF r.kind = "sleep"
        THEN [pc |-> "ctl_recv_sleep1", fifo |-> fifo, taken |-> 0,
              polls |-> <<fifo = <<>>>>, word1 |-> U32(0), ret |-> NoRet]
        ELSE [pc |-> "idle", fifo |-> fifo, taken |-> 0,
              polls |-> <<fifo = <<>>>>, word1 |-> U32(0),
              ret |-> Ok("recv_ctl_cmd_resp", Some(None))]

\* A bound one too high.
MutChipCountCheckInclusive(count) ==
    IF count > MAX_CHIPS_ON_CHAIN THEN "TooManyChips"
    ELSE IF count = 0 THEN "NoChips" ELSE ""

\* enumerate_chips's checks of chip_count: the error, or "".
ChipCountCheck(count) ==
    IF count >= MAX_CHIPS_ON_CHAIN THEN "TooManyChips"
    ELSE IF count = 0 THEN "NoChips" ELSE ""

\* A receive loop that counts a chip whatever its revision.
MutEnumOnRespAnyRev(r) ==
    IF r.status = "err"
    THEN [pc |-> "idle", ret |-> Err("init", r.err), count |-> chip_count,
          got |-> 0, done |-> FALSE]
    ELSE IF r.val = Some(None)
    THEN [pc |-> "enum_check", ret |-> NoRet, count |-> chip_count,
          got |-> 0, done |-> TRUE]
    ELSE [pc |-> "enum_recv", ret |-> NoRet, count |-> chip_count + 1,
          got |-> 1, done |-> FALSE]

\* enumerate_chips's receive loop on what recv_ctl_cmd_resp returned: where
\* it goes on, what init returns, chip_count, and whether a response came.
EnumOnResp(r) ==
    IF r.status = "err"
    THEN [pc |-> "idle", ret |-> Err("init", r.err), count |-> chip_count,
          got |-> 0, done |-> FALSE]
    ELSE IF r.val = Some(None)
    THEN [pc |-> "enum_check", ret |-> NoRet, count |-> chip_count,
          got |-> 0, done |-> TRUE]
    ELSE IF r.val[1][1].chip_rev # ChipRevBm1387
    THEN [pc |-> "idle", ret |-> Err("init", "UnexpectedChipRev"),
          count |-> chip_count, got |-> 1, done |-> FALSE]
    ELSE [pc |-> "enum_recv", ret |-> NoRet, count |-> chip_count + 1,
          got |-> 1, done |-> FALSE]

\* The state after a part `n` of recv_ctl_cmd_resp, called with locals f
\* either on its own or from enumerate_chips, h being the history so far.
CtlRecvApply(f, h, n) ==
    LET returned == n.pc = "idle"
        direct == f.op = "recv_ctl_cmd_resp"
        e == EnumOnResp(n.ret)
    IN  /\ cmd_rx_fifo' = n.fifo
        /\ pc' = IF ~returned THEN n.pc ELSE IF direct THEN "idle" ELSE e.pc
        /\ ret' = IF ~returned THEN NoRet ELSE IF direct THEN n.ret ELSE e.ret
        /\ frame' = IF returned /\ (direct \/ e.pc = "idle") THEN NoFrame
                    ELSE [f EXCEPT !.word1 = n.word1]
        /\ chip_count' = IF returned /\ ~direct THEN e.count ELSE chip_count
        /\ last_heartbeat_sent' =
               IF returned THEN last_heartbeat_sent
               ELSE Elapse(last_heartbeat_sent, RX_POLL_SLEEP_MS)
        /\ hist' = [h EXCEPT
               !.cmd_taken = @ + n.taken,
               !.cmd_polls = @ \o n.polls,
               !.resps = IF returned /\ ~direct THEN @ + e.got ELSE @,
               !.enum_done = IF returned /\ ~direct THEN e.done ELSE @,
               !.enum_ret = IF returned /\ ~direct /\ e.ret.status = "err"
                            THEN Err("enumerate_chips", e.ret.err) ELSE @]
        /\ UNCHANGED <<ctl, overflow_checks, midstate_count_bits, work_id,
                       plug_pin, rst_pin, ctrl_reg, baud_reg, work_time,
                       work_tx_fifo, work_rx_fifo, cmd_tx_fifo, chain>>

\* recv_ctl_cmd_resp::<GetAddressReg>() called on its own, up to its return
\* or its first sleep.
RecvCtlCmdRespCall ==
    /\ ctl = "live" /\ pc = "idle" /\ hist.calls < MaxCalls
    /\ CtlRecvApply([op |-> "recv_ctl_cmd_resp", word1 |-> U32(0)],
                    [hist EXCEPT !.calls = @ + 1, !.cmd_polls = <<>>,
                                 !.cmd_before = hist.cmd_taken],
                    RecvCtlFirst(cmd_rx_fifo, FALSE))
    /\ hwlog' = <<>>

\* The first read's second poll, after its 5 ms sleep.
CtlRecvAfterSleep1 ==
    /\ pc = "ctl_recv_sleep1"
    /\ CtlRecvApply(frame, hist, RecvCtlFirst(cmd_rx_fifo, TRUE))
    /\ UNCHANGED hwlog

\* The second read's second poll, after its 5 ms sleep.
CtlRecvAfterSleep2 ==
    /\ pc = "ctl_recv_sleep2"
    /\ CtlRecvApply(frame, hist, RecvCtlSecond(frame.word1, cmd_rx_fifo, TRUE))
    /\ UNCHANGED hwlog

\* Response words for recv_ctl_cmd_resp on its own: first words of a BM1387
\* frame, of another revision and of a frame the codec rejects (bit 31 set),
\* and second words that differ in metadata, checksum and pad byte.
CmdFirstWords ==
    {WordOfBytes(ChipRevBm1387 \o <<144, 0>>),
     WordOfBytes(ChipRevOther \o <<144, 1>>),
     WordOfBytes(ChipRevUnknown \o <<255, 255>>)}

CmdSecondWords == {WordOfBytes(<<0, 0, 28, 0>>), WordOfBytes(<<4, 2, 231, 255>>)}

NextCmdRxWords ==
    IF Len(hist.cmd_stream) % 2 = 0 THEN CmdFirstWords ELSE CmdSecondWords

\* The IP core pushes the next word received from the chain.
HwCmdRxPush(w) ==
    /\ Len(hist.cmd_stream) < MaxCmdRxWords
    /\ w \in NextCmdRxWords
    /\ cmd_rx_fifo' = Append(cmd_rx_fifo, w)
    /\ hist' = [hist EXCEPT !.cmd_stream = Append(@, w)]
    /\ UNCHANGED <<ctl, overflow_checks, midstate_count_bits, work_id, chip_count,
                   last_heartbeat_sent, plug_pin, rst_pin, ctrl_reg, baud_reg,
                   work_time, work_tx_fifo, work_rx_fifo, cmd_tx_fifo, chain,
                   pc, frame, ret, hwlog>>

----------------------------------------------------------------------------
(* Command channel: commands, and the chip chain *)

\* Most chips on the chain.
MaxChips == 65

\* stat_reg.cmd_tx_full; one FIFO entry stands for the words of one command.
cmd_tx_full == Len(cmd_tx_fifo) >= CmdTxDepth

\* A chain of `chips` chips of which chip `at` (if any) answers with another
\* revision ("rev") or with a frame the codec rejects ("garbled"); `asked`
\* once the GetStatus broadcast reached it, `sent` the response words it has
\* pushed so far.
Chain(chips, fault, at) ==
    [chips |-> chips, fault |-> fault, at |-> at, asked |-> FALSE, sent |-> 0]

NoChain == Chain(0, "none", 0)

Chains ==
    {NoChain, Chain(MAX_CHIPS_ON_CHAIN - 1, "none", 0)}
        \cup {Chain(n, f, 2) : n \in {2, MaxChips},
                               f \in {"none", "rev", "garbled"}}

\* The revision bytes chip number `chip` (1, 2, ...) of the chain answers with.
ChainRev(chip) ==
    IF chip # chain.at \/ chain.fault = "none" THEN ChipRevBm1387
    ELSE IF chain.fault = "rev" THEN ChipRevOther
    ELSE ChipRevUnknown

\* Word k (1, 2, ...) of the chain's answer to the GetStatus broadcast: two
\* words per chip.
ChainWord(k) ==
    IF k % 2 = 1 THEN WordOfBytes(ChainRev((k + 1) \div 2) \o <<144, 0>>)
    ELSE WordOfBytes(<<0, 0, 28, 0>>)

\* The IP core sends the oldest command down the chain.
HwCmdTxTake ==
    /\ cmd_tx_fifo # <<>>
    /\ cmd_tx_fifo' = Tail(cmd_tx_fifo)
    /\ chain' = IF Head(cmd_tx_fifo).act = "GetStatusCmd"
                THEN [chain EXCEPT !.asked = TRUE, !.sent = 0]
                ELSE chain
    /\ UNCHANGED <<ctl, overflow_checks, midstate_count_bits, work_id, chip_count,
                   last_heartbeat_sent, plug_pin, rst_pin, ctrl_reg, baud_reg,
                   work_time, work_tx_fifo, work_rx_fifo, cmd_rx_fifo,
                   pc, frame, ret, hwlog, hist>>

\* The next word of the chips' answers arrives in the command RX FIFO.
ChainRespond ==
    /\ chain.asked
    /\ chain.sent < 2 * chain.chips
    /\ Len(cmd_rx_fifo) < CmdRxDepth
    /\ cmd_rx_fifo' = Append(cmd_rx_fifo, ChainWord(chain.sent + 1))
    /\ chain' = [chain EXCEPT !.sent = @ + 1]
    /\ UNCHANGED <<ctl, overflow_checks, midstate_count_bits, work_id, chip_count,
                   last_heartbeat_sent, plug_pin, rst_pin, ctrl_reg, baud_reg,
                   work_time, work_tx_fifo, work_rx_fifo, cmd_tx_fifo,
                   pc, frame, ret, hwlog, hist>>

----------------------------------------------------------------------------
(* Command channel: send_ctl_cmd word by word.  Here an entry of the        *)
(* command TX FIFO is one 32-bit word.                                      *)

\* Commands handed to send_ctl_cmd: sequences of bytes of length 0 to 12,
\* aligned and not, with bytes whose top bit is set.
Cmds ==
    {<<>>,
     <<84, 5, 0, 0>>,
     <<85, 5, 0, 0, 28>>,
     <<65, 9, 4, 12, 0, 28>>,
     <<1, 2, 3, 4, 5, 6, 7>>,
     <<72, 9, 0, 12, 33, 2, 104, 128>>,
     <<255, 9, 4, 28, 64, 32, 154, 128, 0, 0, 0, 250>>}

\* send_ctl_cmd returns.
SendCtlCmdReturn ==
    /\ pc' = "idle"
    /\ ret' = Ok("send_ctl_cmd", None)

\* What follows the writes of send_ctl_cmd called with locals f: the wait
\* for cmd_tx_empty, or the return.
SendCtlCmdAfterWrites(f) ==
    IF f.wait THEN pc' = "send_ctl_cmd_empty" /\ ret' = NoRet
    ELSE SendCtlCmdReturn

\* send_ctl_cmd(cmd, wait) up to its first FIFO write: the alignment
\* assertion.
SendCtlCmdCall(cmd, wait) ==
    /\ ctl = "live" /\ pc = "idle" /\ hist.calls < MaxCalls
    /\ hist' = [hist EXCEPT !.calls = @ + 1]
    /\ hwlog' = <<>>
    /\ frame' = [op |-> "send_ctl_cmd", cmd |-> cmd, wait |-> wait, idx |-> 1]
    /\ IF Len(cmd) % 4 # 0
       THEN /\ ctl' = "panicked"
            /\ pc' = "panicked"
            /\ ret' = Panic("send_ctl_cmd",
                            "Control command length not aligned to 4 byte boundary!")
       ELSE /\ ctl' = ctl
            /\ IF cmd = <<>> THEN SendCtlCmdAfterWrites(frame')
               ELSE pc' = "send_ctl_cmd_write" /\ ret' = NoRet
    /\ UNCHANGED <<overflow_checks, midstate_count_bits, work_id, chip_count,
                   last_heartbeat_sent, plug_pin, rst_pin, ctrl_reg, baud_reg,
                   work_time, work_tx_fifo, work_rx_fifo, cmd_tx_fifo,
                   cmd_rx_fifo, chain>>

\* `cmd.chunks(4)`: chunk k (1, 2, ...) of an aligned command.
Chunk(cmd, k) == SubSeq(cmd, 4 * k - 3, 4 * k)

\* write_to_cmd_tx_fifo of the next chunk's word, once cmd_tx_full is clear.
SendCtlCmdWrite ==
    /\ pc = "send_ctl_cmd_write"
    /\ ~cmd_tx_full
    /\ LET word == WordOfBytes(Chunk(frame.cmd, frame.idx))
       IN  /\ cmd_tx_fifo' = Append(cmd_tx_fifo, word)
           /\ hwlog' = Append(hwlog,
                              Hw("write_to_cmd_tx_fifo", "cmd_tx_fifo.write",
                                 [word |-> word,
                                  full |-> Len(cmd_tx_fifo) >= CmdTxDepth]))
    /\ frame' = [frame EXCEPT !.idx = @ + 1]
    /\ IF 4 * frame.idx = Len(frame.cmd) THEN SendCtlCmdAfterWrites(frame)
       ELSE UNCHANGED <<pc, ret>>
    /\ UNCHANGED <<ctl, overflow_checks, midstate_count_bits, work_id, chip_count,
                   last_heartbeat_sent, plug_pin, rst_pin, ctrl_reg, baud_reg,
                   work_time, work_tx_fifo, work_rx_fifo, cmd_rx_fifo, chain,
                   hist>>

\* `while !cmd_tx_empty {}` is over.
SendCtlCmdWaitDone ==
    /\ pc = "send_ctl_cmd_empty"
    /\ cmd_tx_fifo = <<>>
    /\ SendCtlCmdReturn
    /\ UNCHANGED <<ctl, overflow_checks, midstate_count_bits, work_id, chip_count,
                   last_heartbeat_sent, plug_pin, rst_pin, ctrl_reg, baud_reg,
                   work_time, work_tx_fifo, work_rx_fifo, cmd_tx_fifo,
                   cmd_rx_fifo, chain, frame, hwlog, hist>>

\* The IP core sends the oldest word of the command TX FIFO down the chain.
HwCmdTxTakeWord ==
    /\ cmd_tx_fifo # <<>>
    /\ cmd_tx_fifo' = Tail(cmd_tx_fifo)
    /\ UNCHANGED <<ctl, overflow_checks, midstate_count_bits, work_id, chip_count,
                   last_heartbeat_sent, plug_pin, rst_pin, ctrl_reg, baud_reg,
                   work_time, work_tx_fifo, work_rx_fifo, cmd_rx_fifo, chain,
                   pc, frame, ret, hwlog, hist>>

----------------------------------------------------------------------------
(* Bring-up: init *)

\* A helper that writes ctrl_reg whole instead of modifying its field.
MutCtrlRegWritten(item, reg) ==
    IF item.act = "disable_ip_core"
    THEN [enable |-> FALSE, midstate_cnt |-> 0]
    ELSE IF item.act = "enable_ip_core"
    THEN [enable |-> TRUE, midstate_cnt |-> 0]
    ELSE IF item.act = "set_midstate_count"
    THEN [enable |-> FALSE, midstate_cnt |-> midstate_count_bits]
    ELSE reg

\* ctrl_reg after enable_ip_core, disable_ip_core or set_midstate_count:
\* `ctrl_reg.modify(..)` of one field.
CtrlRegAfter(item, reg) ==
    IF item.act = "disable_ip_core" THEN [reg EXCEPT !.enable = FALSE]
    ELSE IF item.act = "enable_ip_core" THEN [reg EXCEPT !.enable = TRUE]
    ELSE IF item.act = "set_midstate_count"
    THEN [reg EXCEPT !.midstate_cnt = midstate_count_bits]
    ELSE reg

\* baud_reg after set_baud(_baud): 0x1b whatever the rate.
BaudRegAfter(item, reg) ==
    IF item.act = "set_baud" THEN BAUD_DIV_115200 ELSE reg

\* work_time after set_work_time(work_time).
WorkTimeAfter(item, reg) ==
    IF item.act = "set_work_time" THEN item.arg ELSE reg

ip_core_init ==
    <<Hw("ip_core_init", "disable_ip_core", 0),
      Hw("ip_core_init", "enable_ip_core", 0),
      Hw("ip_core_init", "set_baud", INIT_BAUD),
      Hw("ip_core_init", "set_work_time", WORK_TIME_INIT),
      Hw("ip_core_init", "set_midstate_count", 0)>>

enter_reset ==
    <<Hw("enter_reset", "disable_ip_core", 0), Hw("enter_reset", "rst_pin.set_low", 0)>>

exit_reset ==
    <<Hw("exit_reset", "rst_pin.set_high", 0), Hw("exit_reset", "enable_ip_core", 0)>>

\* The registers after the register helpers `items` ran in order.
RECURSIVE RegsAfter(_, _)
RegsAfter(items, regs) ==
    IF items = <<>> THEN regs
    ELSE RegsAfter(Tail(items),
                   [ctrl_reg  |-> CtrlRegAfter(Head(items), regs.ctrl_reg),
                    baud_reg  |-> BaudRegAfter(Head(items), regs.baud_reg),
                    work_time |-> WorkTimeAfter(Head(items), regs.work_time)])

\* ip_core_init or one register helper is called directly, as the tests of
\* the module call them: `op` runs the helpers `items`.
RegCall(op, items) ==
    /\ ctl = "live" /\ pc = "idle"
    /\ LET before == [ctrl_reg |-> ctrl_reg, baud_reg |-> baud_reg,
                      work_time |-> work_time]
           after == RegsAfter(items, before)
       IN  /\ ctrl_reg' = after.ctrl_reg
           /\ baud_reg' = after.baud_reg
           /\ work_time' = after.work_time
           /\ hist' = [hist EXCEPT !.regs = Some(before)]
    /\ hwlog' = items
    /\ ret' = Ok(op, None)
    /\ frame' = NoFrame
    /\ UNCHANGED <<ctl, overflow_checks, midstate_count_bits, work_id, chip_count,
                   last_heartbeat_sent, plug_pin, rst_pin, work_tx_fifo,
                   work_rx_fifo, cmd_tx_fifo, cmd_rx_fifo, chain, pc>>

\* Rates passed to set_baud and times passed to set_work_time.
BaudRates == {9600, INIT_BAUD}

WorkTimes == {1, WORK_TIME_INIT}

\* The direct calls of one register helper.
RegHelperCalls ==
    {Hw("test", a, 0) : a \in {"enable_ip_core", "disable_ip_core",
                               "set_midstate_count"}}
        \cup {Hw("test", "set_baud", b) : b \in BaudRates}
        \cup {Hw("test", "set_work_time", t) : t \in WorkTimes}

IpCoreInitCall == RegCall("ip_core_init", ip_core_init)

RegHelperCall(item) == RegCall(item.act, <<item>>)

\* An init that enables the voltage before it has checked the version.
MutInitVoltageBeforeVersion ==
    <<Hw("init", "ip_core_init", 0)>> \o ip_core_init
    \o <<Hw("init", "voltage_ctrl.reset", 0),
         Hw("init", "voltage_ctrl.jump_from_loader_to_app", 0),
         Hw("init", "voltage_ctrl.set_voltage", INIT_VOLTAGE),
         Hw("init", "voltage_ctrl.enable_voltage", 0),
         Hw("init", "voltage_ctrl.get_version", 0),
         Hw("init", "enter_reset", 0)>> \o enter_reset
    \o <<Hw("init", "voltage_ctrl.disable_voltage", 0),
         Hw("init", "sleep", INIT_DELAY_MS),
         Hw("init", "voltage_ctrl.enable_voltage", 0),
         Hw("init", "sleep", 2 * INIT_DELAY_MS),
         Hw("init", "send_voltage_ctrl_heart_beat", 0),
         Hw("init", "exit_reset", 0)>> \o exit_reset
    \o <<Hw("init", "sleep", INIT_DELAY_MS),
         Hw("init", "enumerate_chips", 0)>>

\* An init that puts the board into reset before it has checked the version.
MutInitResetBeforeVersion ==
    <<Hw("init", "ip_core_init", 0)>> \o ip_core_init
    \o <<Hw("init", "voltage_ctrl.reset", 0),
         Hw("init", "voltage_ctrl.jump_from_loader_to_app", 0),
         Hw("init", "enter_reset", 0)>> \o enter_reset
    \o <<Hw("init", "voltage_ctrl.get_version", 0),
         Hw("init", "voltage_ctrl.set_voltage", INIT_VOLTAGE),
         Hw("init", "voltage_ctrl.enable_voltage", 0),
         Hw("init", "voltage_ctrl.disable_voltage", 0),
         Hw("init", "sleep", INIT_DELAY_MS),
         Hw("init", "voltage_ctrl.enable_voltage", 0),
         Hw("init", "sleep", 2 * INIT_DELAY_MS),
         Hw("init", "send_voltage_ctrl_heart_beat", 0),
         Hw("init", "exit_reset", 0)>> \o exit_reset
    \o <<Hw("init", "sleep", INIT_DELAY_MS),
         Hw("init", "enumerate_chips", 0)>>

\* The statements of init up to its call of enumerate_chips, with those of
\* the procedures it calls.
init ==
    <<Hw("init", "ip_core_init", 0)>> \o ip_core_init
    \o <<Hw("init", "voltage_ctrl.reset", 0),
         Hw("init", "voltage_ctrl.jump_from_loader_to_app", 0),
         Hw("init", "voltage_ctrl.get_version", 0),
         Hw("init", "voltage_ctrl.set_voltage", INIT_VOLTAGE),
         Hw("init", "voltage_ctrl.enable_voltage", 0),
         Hw("init", "enter_reset", 0)>> \o enter_reset
    \o <<Hw("init", "voltage_ctrl.disable_voltage", 0),
         Hw("init", "sleep", INIT_DELAY_MS),
         Hw("init", "voltage_ctrl.enable_voltage", 0),
         Hw("init", "sleep", 2 * INIT_DELAY_MS),
         Hw("init", "send_voltage_ctrl_heart_beat", 0),
         Hw("init", "exit_reset", 0)>> \o exit_reset
    \o <<Hw("init", "sleep", INIT_DELAY_MS),
         Hw("init", "enumerate_chips", 0)>>

VoltageCtrlActs ==
    {"voltage_ctrl.reset", "voltage_ctrl.jump_from_loader_to_app",
     "voltage_ctrl.get_version", "voltage_ctrl.set_voltage",
     "voltage_ctrl.enable_voltage", "voltage_ctrl.disable_voltage"}

\* What the voltage controller may answer to a call.
VoltageCtrlAnswers(act) ==
    IF act = "voltage_ctrl.get_version" THEN {"ok", "io_err", "other_version"}
    ELSE {"ok", "io_err"}

\* init begins.
InitBegin ==
    /\ pc' = "init"
    /\ frame' = [op |-> "init", step |-> 1, loop |-> "", i |-> 0, word1 |-> U32(0)]
    /\ ret' = NoRet
    /\ hwlog' = <<>>
    /\ hist' = [hist EXCEPT !.calls = @ + 1]
    /\ UNCHANGED <<ctl, overflow_checks, midstate_count_bits, work_id, chip_count,
                   last_heartbeat_sent, plug_pin, rst_pin, ctrl_reg, baud_reg,
                   work_time, work_tx_fifo, work_rx_fifo, cmd_tx_fifo,
                   cmd_rx_fifo, chain>>

\* init is called on a freshly constructed controller.
InitCall ==
    /\ ctl = "live" /\ pc = "idle" /\ ret = Ok("new", None)
    /\ InitBegin

\* init is called later in the life of a controller: after another call, or
\* after an init that returned.
InitAgain ==
    /\ ctl = "live" /\ pc = "idle" /\ ret # Ok("new", None)
    /\ hist.calls < MaxCalls
    /\ InitBegin

\* The next statement of init when it is a register or pin write, a sleep,
\* or the entry of a procedure.
InitHwStep ==
    /\ pc = "init"
    /\ LET item == init[frame.step]
       IN  /\ item.act \notin VoltageCtrlActs
                 \cup {"send_voltage_ctrl_heart_beat", "enumerate_chips"}
           /\ ctrl_reg' = CtrlRegAfter(item, ctrl_reg)
           /\ baud_reg' = BaudRegAfter(item, baud_reg)
           /\ work_time' = WorkTimeAfter(item, work_time)
           /\ rst_pin' = IF item.act = "rst_pin.set_low" THEN "low"
                         ELSE IF item.act = "rst_pin.set_high" THEN "high"
                         ELSE rst_pin
           /\ last_heartbeat_sent' =
                  IF item.act = "sleep" THEN Elapse(last_heartbeat_sent, item.arg)
                  ELSE last_heartbeat_sent
           /\ hwlog' = Append(hwlog, item)
    /\ frame' = [frame EXCEPT !.step = @ + 1]
    /\ UNCHANGED <<ctl, overflow_checks, midstate_count_bits, work_id, chip_count,
                   plug_pin, work_tx_fifo, work_rx_fifo, cmd_tx_fifo, cmd_rx_fifo,
                   chain, pc, ret, hist>>

\* The next statement of init when it is a call of the voltage controller.
InitVoltageCtrlStep(answer) ==
    /\ pc = "init"
    /\ init[frame.step].act \in VoltageCtrlActs
    /\ answer \in VoltageCtrlAnswers(init[frame.step].act)
    /\ hwlog' = Append(hwlog, init[frame.step])
    /\ IF answer = "ok"
       THEN /\ frame' = [frame EXCEPT !.step = @ + 1]
            /\ UNCHANGED <<pc, ret>>
       ELSE /\ pc' = "idle"
            /\ frame' = NoFrame
            /\ ret' = Err("init", IF answer = "io_err" THEN "VoltageCtrl"
                                  ELSE "UnexpectedVersion")
    /\ UNCHANGED <<ctl, overflow_checks, midstate_count_bits, work_id, chip_count,
                   last_heartbeat_sent, plug_pin, rst_pin, ctrl_reg, baud_reg,
                   work_time, work_tx_fifo, work_rx_fifo, cmd_tx_fifo,
                   cmd_rx_fifo, chain, hist>>

\* A heartbeat tick of init or of enumerate_chips and, after the tick that
\* follows the receive loop, the checks of chip_count.
HeartbeatStep(answer) ==
    /\ \/ pc = "init" /\ init[frame.step].act = "send_voltage_ctrl_heart_beat"
       \/ pc \in {"enum_check", "enum_hb2", "enum_hb3"}
    /\ answer \in HbAnswersFor(last_heartbeat_sent)
    /\ LET hb == send_voltage_ctrl_heart_beat(last_heartbeat_sent, answer)
           by == IF pc = "init" THEN "init" ELSE "enumerate_chips"
           err == IF hb.err # "" THEN hb.err
                  ELSE IF pc = "enum_check" THEN ChipCountCheck(chip_count)
                  ELSE ""
       IN  /\ last_heartbeat_sent' = hb.last
           /\ hwlog' = hwlog \o HbLog(by, hb)
                  \o (IF err = "" /\ pc = "enum_hb3"
                      THEN <<Hw("init", "set_pll", 0)>> ELSE <<>>)
           /\ IF err # ""
              THEN /\ pc' = "idle"
                   /\ frame' = NoFrame
                   /\ ret' = Err("init", err)
                   /\ hist' = IF pc = "init" THEN hist
                              ELSE [hist EXCEPT
                                       !.enum_ret = Err("enumerate_chips", err)]
              ELSE /\ pc' = IF pc = "init" THEN "init"
                            ELSE IF pc = "enum_check" THEN "enum_inactivate"
                            ELSE "for_all_chips"
                   /\ frame' =
                          IF pc = "init" THEN [frame EXCEPT !.step = @ + 1]
                          ELSE IF pc = "enum_check" THEN [frame EXCEPT !.i = 0]
                          ELSE IF pc = "enum_hb2"
                          THEN [frame EXCEPT !.loop = "SetChipAddressCmd", !.i = 0]
                          ELSE [frame EXCEPT !.loop = "SetConfigCmd.PLL_PARAM_REG",
                                             !.i = 0]
                   /\ hist' = IF pc = "enum_hb3"
                              THEN [hist EXCEPT
                                       !.enum_ret = Ok("enumerate_chips", None)]
                              ELSE hist
                   /\ UNCHANGED ret
    /\ UNCHANGED <<ctl, overflow_checks, midstate_count_bits, work_id, chip_count,
                   plug_pin, rst_pin, ctrl_reg, baud_reg, work_time,
                   work_tx_fifo, work_rx_fifo, cmd_tx_fifo, cmd_rx_fifo, chain>>

\* enumerate_chips up to its receive loop: the GetStatus broadcast of the
\* address register, and chip_count = 0.
EnumStart ==
    /\ pc = "init" /\ init[frame.step].act = "enumerate_chips"
    /\ ~cmd_tx_full
    /\ LET cmd == Hw("enumerate_chips", "GetStatusCmd", 0)
       IN  /\ cmd_tx_fifo' = Append(cmd_tx_fifo, cmd)
           /\ hwlog' = hwlog \o <<init[frame.step], cmd>>
    /\ chip_count' = 0
    /\ pc' = "enum_recv"
    /\ frame' = [frame EXCEPT !.step = @ + 1]
    /\ UNCHANGED <<ctl, overflow_checks, midstate_count_bits, work_id,
                   last_heartbeat_sent, plug_pin, rst_pin, ctrl_reg, baud_reg,
                   work_time, work_tx_fifo, work_rx_fifo, cmd_rx_fifo, chain,
                   ret, hist>>

\* One turn of the receive loop, up to the first sleep of recv_ctl_cmd_resp.
EnumRecv ==
    /\ pc = "enum_recv"
    /\ CtlRecvApply(frame,
                    [hist EXCEPT !.cmd_polls = <<>>, !.cmd_before = hist.cmd_taken],
                    RecvCtlFirst(cmd_rx_fifo, FALSE))
    /\ UNCHANGED hwlog

\* One of the three InactivateFromChain broadcasts and the sleep after it.
EnumInactivate ==
    /\ pc = "enum_inactivate"
    /\ ~cmd_tx_full
    /\ LET cmd == Hw("enumerate_chips", "InactivateFromChainCmd", 0)
       IN  /\ cmd_tx_fifo' = Append(cmd_tx_fifo, cmd)
           /\ hwlog' = hwlog \o <<cmd, Hw("enumerate_chips", "sleep",
                                          INACTIVATE_FROM_CHAIN_DELAY_MS)>>
    /\ last_heartbeat_sent' =
           Elapse(last_heartbeat_sent, INACTIVATE_FROM_CHAIN_DELAY_MS)
    /\ frame' = [frame EXCEPT !.i = @ + 1]
    /\ pc' = IF frame.i + 1 = INACTIVATE_REPEAT THEN "enum_hb2" ELSE pc
    /\ UNCHANGED <<ctl, overflow_checks, midstate_count_bits, work_id, chip_count,
                   plug_pin, rst_pin, ctrl_reg, baud_reg, work_time,
                   work_tx_fifo, work_rx_fifo, cmd_rx_fifo, chain, ret, hist>>

\* Addresses that count the chips one by one.
MutChipAddrStepOne(i) == i % 256

\* The address for_all_chips hands to its closure in turn i (0, 1, ...):
\* `(0..self.chip_count * 4).step_by(4)`, then `addr as u8`.
ChipAddr(i) == (i * CHIP_ADDR_STEP) % 256

\* for_all_chips, as enumerate_chips (SetChipAddress) and set_pll (SetConfig
\* of the PLL register) use it: the command for the next address, or the end
\* of the loop.
ForAllChipsStep ==
    /\ pc = "for_all_chips"
    /\ IF frame.i < chip_count
       THEN /\ ~cmd_tx_full
            /\ LET by == IF frame.loop = "SetChipAddressCmd"
                         THEN "enumerate_chips" ELSE "set_pll"
                   cmd == Hw(by, frame.loop, ChipAddr(frame.i))
               IN  /\ cmd_tx_fifo' = Append(cmd_tx_fifo, cmd)
                   /\ hwlog' = Append(hwlog, cmd)
            /\ frame' = [frame EXCEPT !.i = @ + 1]
            /\ UNCHANGED <<pc, ret>>
       ELSE /\ IF chip_count = 0
               THEN /\ pc' = "idle"
                    /\ frame' = NoFrame
                    /\ ret' = Err("init", "NoChipsToIterate")
               ELSE /\ pc' = IF frame.loop = "SetChipAddressCmd"
                             THEN "enum_hb3" ELSE "configure_hash_chain"
                    /\ UNCHANGED <<frame, ret>>
            /\ UNCHANGED <<cmd_tx_fifo, hwlog>>
    /\ UNCHANGED <<ctl, overflow_checks, midstate_count_bits, work_id, chip_count,
                   last_heartbeat_sent, plug_pin, rst_pin, ctrl_reg, baud_reg,
                   work_time, work_tx_fifo, work_rx_fifo, cmd_rx_fifo, chain,
                   hist>>

\* configure_hash_chain up to the wait of send_ctl_cmd.
ConfigureHashChain ==
    /\ pc = "configure_hash_chain"
    /\ ~cmd_tx_full
    /\ LET cmd == Hw("configure_hash_chain", "SetConfigCmd.MISC_CONTROL_REG", 0)
       IN  /\ cmd_tx_fifo' = Append(cmd_tx_fifo, cmd)
           /\ hwlog' = hwlog \o <<Hw("init", "configure_hash_chain", 0), cmd>>
    /\ pc' = "send_ctl_cmd_wait"
    /\ UNCHANGED <<ctl, overflow_checks, midstate_count_bits, work_id, chip_count,
                   last_heartbeat_sent, plug_pin, rst_pin, ctrl_reg, baud_reg,
                   work_time, work_tx_fifo, work_rx_fifo, cmd_rx_fifo, chain,
                   frame, ret, hist>>

\* `while !cmd_tx_empty {}` is over; configure_hash_chain and init return.
ConfigureWaitDone ==
    /\ pc = "send_ctl_cmd_wait"
    /\ cmd_tx_fifo = <<>>
    /\ hwlog' = Append(hwlog, Hw("send_ctl_cmd", "cmd_tx_empty", 0))
    /\ pc' = "idle"
    /\ frame' = NoFrame
    /\ ret' = Ok("init", None)
    /\ UNCHANGED <<ctl, overflow_checks, midstate_count_bits, work_id, chip_count,
                   last_heartbeat_sent, plug_pin, rst_pin, ctrl_reg, baud_reg,
                   work_time, work_tx_fifo, work_rx_fifo, cmd_tx_fifo,
                   cmd_rx_fifo, chain, hist>>

----------------------------------------------------------------------------
(* The work pipeline: a board is constructed and then fed work and polled    *)
(* for results, while the IP core takes work words and pushes result words. *)

\* The hardware and the caller before anything ran.
InitWorld ==
    /\ rst_pin = "high"
    /\ ctrl_reg = [enable |-> FALSE, midstate_cnt |-> 0]
    /\ baud_reg = 0
    /\ work_time = 0
    /\ work_tx_fifo = <<>>
    /\ work_rx_fifo = <<>>
    /\ cmd_tx_fifo = <<>>
    /\ cmd_rx_fifo = <<>>
    /\ pc = "idle"
    /\ frame = NoFrame

\* No controller yet, on a board with the chain c.
InitBoardOn(c) ==
    /\ InitWorld
    /\ overflow_checks \in BOOLEAN
    /\ chain = c
    /\ ctl = "none"
    /\ midstate_count_bits = 0
    /\ work_id = 0
    /\ chip_count = 0
    /\ last_heartbeat_sent = None
    /\ plug_pin \in {"high", "low"}
    /\ ret = NoRet
    /\ hwlog = <<>>
    /\ hist = NoHist

InitBoard == InitBoardOn(NoChain)

\* A board constructed for `bits` whose work_id counter stands at `id`.
InitLiveAt(bits, id) ==
    /\ InitWorld
    /\ ctl = "live"
    /\ midstate_count_bits = bits
    /\ work_id = id
    /\ chip_count = 0
    /\ last_heartbeat_sent = None
    /\ plug_pin = "high"
    /\ ret = Ok("new", None)
    /\ hwlog = NewSteps("none")

\* The history of a run that starts on a constructed board.
LiveHist == [NoHist EXCEPT !.mappings = 1]

\* A board right after a successful new().
InitLive ==
    /\ \E bits \in MidstateCounts : InitLiveAt(bits, 0)
    /\ overflow_checks \in BOOLEAN
    /\ chain = NoChain
    /\ hist = LiveHist

NewBoard == \E m \in MidstateCounts, f \in NewFaults : New(m, f)

\* Work submission alone.
InitSend == InitBoard

NextSend ==
    \/ NewBoard
    \/ \E w \in Works, a \in HbAnswers : SendWorkCall(w, a)
    \/ SendWorkWrite
    \/ HwWorkTxTake
    \/ Tick

SpecSend == InitSend /\ [][NextSend]_vars

\* Result reception alone.
InitRecv == InitBoard

NextRecv ==
    \/ NewBoard
    \/ \E a \in HbAnswers : RecvWorkResultCall(a)
    \/ RecvAfterSleep1
    \/ RecvAfterSleep2
    \/ \E w \in NextRxWords : HwWorkRxPush(w)
    \/ Tick

SpecRecv == InitRecv /\ [][NextRecv]_vars

----------------------------------------------------------------------------
(* Decoding of result words on a constructed board. *)

\* Result words: every solution / midstate / work-id field at its bounds,
\* 0x00123502 among them, with bit 31 clear and set.
ResultIdSamples ==
    {n + 256 * m + 1024 * h : n \in {0, 2, 255}, m \in 0 .. 3,
                              h \in {0, 1, 1165, 2097151}}

ResultIds == {U32(n) : n \in ResultIdSamples} \cup {U32Top(n) : n \in ResultIdSamples}

\* The three decoding helpers applied to one result word, as
\* test_get_result_word_attributes applies them.
GetResultWordAttributes(result_word) ==
    /\ ctl = "live" /\ pc = "idle"
    /\ ret' = Ok("result_word_attributes",
                 Some([result_id |-> result_word,
                       work_id |-> get_work_id_from_result_id(result_word),
                       midstate_idx |-> get_midstate_idx_from_result_id(result_word),
                       solution_idx |-> get_solution_idx_from_result_id(result_word)]))
    /\ UNCHANGED <<ctl, overflow_checks, midstate_count_bits, work_id, chip_count,
                   last_heartbeat_sent, plug_pin, rst_pin, ctrl_reg, baud_reg,
                   work_time, work_tx_fifo, work_rx_fifo, cmd_tx_fifo,
                   cmd_rx_fifo, chain, pc, frame, hwlog, hist>>

InitDecode == InitLive

NextDecode == \E w \in ResultIds : GetResultWordAttributes(w)

SpecDecode == InitDecode /\ [][NextDecode]_vars

----------------------------------------------------------------------------
(* The work_id counter near its wrap.  Every multiple of                    *)
(* 1 << midstate_count_bits below 2^16 is a value the counter takes: it     *)
(* starts at 0 and each submission adds 1 << midstate_count_bits.  A run    *)
(* starts either at construction or at most WrapLead submissions before     *)
(* the counter reaches 2^16.                                                *)

\* How many submissions before the wrap a run may start.
WrapLead == 2

InitWrap ==
    \/ InitLive
    \/ \E bits \in MidstateCounts, k \in 1 .. WrapLead :
           /\ InitLiveAt(bits, Pow2(U16_BITS) - k * Pow2(bits))
           /\ overflow_checks \in BOOLEAN
           /\ chain = NoChain
           /\ hist = [LiveHist EXCEPT !.sends = 2]

\* A work with as many midstates as the board is configured for.
FittingWork == MiningWork(Pow2(midstate_count_bits), 0)

NextWrap ==
    \/ \E a \in HbAnswers : SendWorkCall(FittingWork, a)
    \/ SendWorkWrite
    \/ HwWorkTxTake

SpecWrap == InitWrap /\ [][NextWrap]_vars

----------------------------------------------------------------------------
(* The work_id counter over a full period: work is submitted, from          *)
(* WrapLead submissions before the wrap on, until a whole period of         *)
(* consecutive submissions has succeeded.                                   *)

InitIds ==
    /\ \E bits \in MidstateCounts :
           InitLiveAt(bits, Pow2(U16_BITS) - WrapLead * Pow2(bits))
    /\ overflow_checks \in BOOLEAN
    /\ chain = NoChain
    /\ hist = [LiveHist EXCEPT !.sends = 2]

NextIds == \E a \in HbAnswers : SendWork(a)

SpecIds == InitIds /\ [][NextIds]_vars

----------------------------------------------------------------------------
(* Results matched to their work: work is submitted, the chips answer with  *)
(* result ids laid out for its work_id, and the work_id is read back from   *)
(* the result.                                                              *)

InitMatch == InitIds

\* The caller makes MaxCalls calls at most.
NextMatch ==
    \/ \E a \in HbAnswers : hist.calls < MaxCalls /\ SendWork(a)
    \/ \E w \in NextRxWords : HwWorkRxPush(w)
    \/ \E a \in HbAnswers : RecvWorkResultCall(a)
    \/ RecvAfterSleep1
    \/ RecvAfterSleep2
    \/ GetWorkIdFromResult

SpecMatch == InitMatch /\ [][NextMatch]_vars

----------------------------------------------------------------------------
(* Construction: controllers are constructed, used for a few submissions    *)
(* and dropped, on a board that is plugged in or not.                       *)

InitNew == InitBoard

NextNew ==
    \/ NewBoard
    \/ Drop
    \/ \E a \in HbAnswers : hist.calls < MaxCalls /\ SendWork(a)
    \/ Tick

SpecNew == InitNew /\ [][NextNew]_vars

----------------------------------------------------------------------------
(* The registers of the IP core: ip_core_init and the register helpers are  *)
(* called in any order, starting from any register contents.                *)

\* ctrl_reg.midstate_cnt is a two-bit field.
CtrlRegs == [enable : BOOLEAN, midstate_cnt : 0 .. 3]

BaudRegs == {0, BAUD_DIV_115200, 255}

\* The registers hold anything when the controller is constructed.
InitAnyRegs ==
    /\ ctl = "live" /\ pc = "idle" /\ frame = NoFrame
    /\ midstate_count_bits \in MidstateCounts
    /\ ctrl_reg \in CtrlRegs
    /\ baud_reg \in BaudRegs
    /\ work_time \in {0} \cup WorkTimes
    /\ rst_pin = "high" /\ plug_pin = "high"
    /\ work_id = 0 /\ chip_count = 0 /\ last_heartbeat_sent = None
    /\ work_tx_fifo = <<>> /\ work_rx_fifo = <<>>
    /\ cmd_tx_fifo = <<>> /\ cmd_rx_fifo = <<>>
    /\ ret = Ok("new", None)
    /\ hwlog = NewSteps("none")
    /\ overflow_checks = TRUE
    /\ chain = NoChain
    /\ hist = LiveHist

NextRegs ==
    \/ IpCoreInitCall
    \/ \E item \in RegHelperCalls : RegHelperCall(item)

SpecRegs == InitAnyRegs /\ [][NextRegs]_vars

----------------------------------------------------------------------------
(* The response side of the command channel alone: recv_ctl_cmd_resp is     *)
(* called while the IP core pushes response words.                          *)

InitCmd == InitLive

NextCmd ==
    \/ RecvCtlCmdRespCall
    \/ CtlRecvAfterSleep1
    \/ CtlRecvAfterSleep2
    \/ \E w \in NextCmdRxWords : HwCmdRxPush(w)

SpecCmd == InitCmd /\ [][NextCmd]_vars

----------------------------------------------------------------------------
(* The command side of the command channel alone: send_ctl_cmd is called    *)
(* with commands of any length while the IP core takes the words.           *)

InitCtlCmd == InitLive

NextCtlCmd ==
    \/ \E cmd \in Cmds, wait \in BOOLEAN : SendCtlCmdCall(cmd, wait)
    \/ SendCtlCmdWrite
    \/ SendCtlCmdWaitDone
    \/ HwCmdTxTakeWord

SpecCtlCmd == InitCtlCmd /\ [][NextCtlCmd]_vars

----------------------------------------------------------------------------
(* Bring-up: init runs on a freshly constructed controller, against a chip   *)
(* chain that answers the GetStatus broadcast at its own pace.  init does    *)
(* no u16 arithmetic, so the build's overflow checks play no part.           *)

InitBringUp ==
    /\ \E bits \in MidstateCounts : InitLiveAt(bits, 0)
    /\ overflow_checks = TRUE
    /\ chain \in Chains
    /\ hist = LiveHist

NextBringUp ==
    \/ InitCall
    \/ InitHwStep
    \/ \E a \in {"ok", "io_err", "other_version"} : InitVoltageCtrlStep(a)
    \/ \E a \in HbAnswers : HeartbeatStep(a)
    \/ EnumStart
    \/ EnumRecv
    \/ CtlRecvAfterSleep1
    \/ CtlRecvAfterSleep2
    \/ EnumInactivate
    \/ ForAllChipsStep
    \/ ConfigureHashChain
    \/ ConfigureWaitDone
    \/ HwCmdTxTake
    \/ ChainRespond

SpecBringUp == InitBringUp /\ [][NextBringUp]_vars

----------------------------------------------------------------------------
(* The life of a board: controllers are constructed and dropped, init is     *)
(* called, also again after it returned, and work is sent and results are    *)
(* polled, on a board with one chip.                                         *)

\* The few calls of one run cannot bring work_id near its wrap, so the
\* build's overflow checks play no part.
InitLife ==
    /\ InitBoardOn(Chain(1, "none", 0))
    /\ overflow_checks = FALSE

NextLife ==
    \/ NewBoard
    \/ Drop
    \/ InitCall
    \/ InitAgain
    \/ InitHwStep
    \/ \E a \in {"ok", "io_err", "other_version"} : InitVoltageCtrlStep(a)
    \/ \E a \in HbAnswers : HeartbeatStep(a)
    \/ EnumStart
    \/ EnumRecv
    \/ CtlRecvAfterSleep1
    \/ CtlRecvAfterSleep2
    \/ EnumInactivate
    \/ ForAllChipsStep
    \/ ConfigureHashChain
    \/ ConfigureWaitDone
    \/ HwCmdTxTake
    \/ ChainRespond
    \/ \E a \in HbAnswers : SendWorkCall(FittingWork, a)
    \/ SendWorkWrite
    \/ HwWorkTxTake
    \/ \E a \in HbAnswers : RecvWorkResultCall(a)
    \/ RecvAfterSleep1

SpecLife == InitLife /\ [][NextLife]_vars

----------------------------------------------------------------------------
(* The heartbeat ticker in steady state: work is sent and results are       *)
(* polled on a constructed board, with idle time in between.                *)

InitBeat == InitLive

NextBeat ==
    \/ \E a \in HbAnswers : SendWorkCall(FittingWork, a)
    \/ SendWorkWrite
    \/ HwWorkTxTake
    \/ \E a \in HbAnswers : RecvWorkResultCall(a)
    \/ RecvAfterSleep1
    \/ Tick

SpecBeat == InitBeat /\ [][NextBeat]_vars

----------------------------------------------------------------------------
(* Properties *)

\* The result of the last finished call, when it carries a value.
RetVal == ret.val[1]

Decoded == ret.op = "result_word_attributes"

\* C2: for every result word and every midstate_count_bits in {0,1,2} the
\* helpers return solution_idx = id & 0xFF, midstate_idx = (id >> 8) &
\* ((1 << mbits) - 1) and work_id = (id >> 8) >> mbits (stated on the
\* number held by bits 0..30 and on bit 31), so solution_idx < 256,
\* midstate_idx < 1 << mbits and the three fields put back side by side are
\* the word; 0x00123502 decodes to (0x1235, 0, 2), (0x091A, 1, 2),
\* (0x048D, 1, 2).
C2_DecodeResultId ==
    Decoded =>
        LET id == RetVal.result_id
            m  == midstate_count_bits
            n  == LowNat(id, 31)
        IN  /\ RetVal.solution_idx = n % 256
            /\ RetVal.midstate_idx = (n \div 256) % Pow2(m)
            /\ RetVal.work_id[31] = 0
            /\ ToNat(RetVal.work_id)
                   = (n \div Pow2(8 + m)) + id[31] * Pow2(23 - m)
            /\ RetVal.solution_idx < 256
            /\ RetVal.midstate_idx < Pow2(m)
            /\ id = BitOr(BitOr(Shl(RetVal.work_id, 8 + m),
                                Shl(U32(RetVal.midstate_idx), 8)),
                          U32(RetVal.solution_idx))
            /\ id = U32(1193218) =>
                   /\ ToNat(RetVal.work_id) = <<4661, 2330, 1165>>[m + 1]
                   /\ RetVal.midstate_idx = <<0, 1, 1>>[m + 1]
                   /\ RetVal.solution_idx = 2

\* 0x00123502 has been decoded on a board configured for four midstates.
C2_Witness ==
    /\ Decoded
    /\ midstate_count_bits = 2
    /\ RetVal.result_id = U32(1193218)
    /\ ToNat(RetVal.work_id) = 1165

SentOk(r) == r.op = "send_work" /\ r.status = "ok"

\* C1: consecutive successful send_work calls return work_ids that step by
\* 1 << midstate_count_bits modulo 2^16, the first call after construction
\* returns 0, and send_work keeps succeeding across the wrap (it never
\* panics).
C1_WorkIdProgression ==
    /\ hist.sw_last.status # "panic"
    /\ (SentOk(hist.sw_last) /\ hist.sends = 1) => hist.sw_last.val[1] = U32(0)
    /\ (SentOk(hist.sw_last) /\ SentOk(hist.sw_prev)) =>
           ToNat(hist.sw_last.val[1])
               = (ToNat(hist.sw_prev.val[1]) + Pow2(midstate_count_bits))
                     % Pow2(U16_BITS)

\* The last call was a send_work that returned Ok; frame still holds its work.
SendReturned == pc = "idle" /\ SentOk(ret) /\ frame.op = "send_work"

TxWords == [k \in 1 .. Len(hist.tx_log) |-> hist.tx_log[k].word]

\* Word j (0 .. 7) of a U256 in memory order.
NativeWord(midstate, j) ==
    IF j % 2 = 0 THEN midstate[j \div 2 + 1].lo ELSE midstate[j \div 2 + 1].hi

\* C3: a successful send_work(work) has written to the work TX FIFO exactly
\* 4 + 8 * len(midstates) words: work_id, nbits, ntime, merkle_root_lsw, then
\* for each midstate in sequence order its words 7, 6, ..., 0; every write
\* found work_tx_full clear, the first word is the returned work_id, and
\* the FIFO holds the last words written, in order.
C3_SendWorkWords ==
    SendReturned =>
        LET work == frame.work
            n    == Len(work.midstates)
        IN  /\ Len(hist.tx_log) = 4 + 8 * n
            /\ TxWords[1] = RetVal
            /\ TxWords[2] = work.nbits
            /\ TxWords[3] = work.ntime
            /\ TxWords[4] = work.merkel_root_lsw
            /\ \A i \in 1 .. n : \A k \in 1 .. 8 :
                   TxWords[4 + 8 * (i - 1) + k]
                       = NativeWord(work.midstates[i], 8 - k)
            /\ \A k \in 1 .. Len(hist.tx_log) : ~hist.tx_log[k].full
            /\ work_tx_fifo = SubSeq(TxWords,
                                     Len(TxWords) - Len(work_tx_fifo) + 1,
                                     Len(TxWords))

\* A work with two midstates sent on a board configured for two.
C3_Witness ==
    /\ SendReturned
    /\ midstate_count_bits = 1
    /\ Len(frame.work.midstates) = 2
    /\ Len(hist.tx_log) = 20

\* C4: a send_work whose work carries a number of midstates other than
\* 1 << midstate_count_bits returns an error and writes no word to the
\* work TX FIFO.
C4_WrongMidstateCountRejected ==
    /\ (pc = "send_work_write" /\ hist.tx_log # <<>>) =>
           Len(frame.work.midstates) = Pow2(midstate_count_bits)
    /\ SendReturned => Len(frame.work.midstates) = Pow2(midstate_count_bits)

\* The last call was a recv_work_result and it has returned.
RecvReturned == pc = "idle" /\ ret.op = "recv_work_result"

RecvAbsent == RecvReturned /\ ret.status = "ok" /\ ret.val = Some(None)

RecvResult == RecvReturned /\ ret.status = "ok" /\ ret.val # Some(None)

\* Words the last recv_work_result took from the work RX FIFO.
RecvTaken == hist.rx_taken - hist.rx_before

\* The polls of a first read that timed out, and of a first read that found
\* a word (at once or after the sleep) followed by a second that timed out.
FirstTimedOut == hist.polls = <<TRUE, TRUE>>

SecondTimedOut ==
    hist.polls \in {<<FALSE, TRUE, TRUE>>, <<TRUE, FALSE, TRUE, TRUE>>}

\* C5: recv_work_result returns Ok(None) exactly when its first read found
\* the work RX FIFO empty on the poll and on the re-poll, and then it has
\* taken no word; when the first read got a word and the second read timed
\* out it returns an error (TimedOut), neither absent nor a result.
C5_RecvAbsentOnFirstTimeout ==
    RecvReturned =>
        /\ RecvAbsent <=> FirstTimedOut
        /\ RecvAbsent => RecvTaken = 0
        /\ SecondTimedOut =>
               /\ ret.status = "err"
               /\ ret.err = "TimedOut"
               /\ RecvTaken = 1

\* An absent return, and elsewhere a torn result; here the torn one, after
\* the nonce arrived during the first sleep.
C5_Witness ==
    /\ RecvReturned
    /\ hist.polls = <<TRUE, FALSE, TRUE, TRUE>>
    /\ ret.status = "err"

\* The two words the last recv_work_result took.
Word1 == hist.rx_stream[hist.rx_before + 1]

Word2 == hist.rx_stream[hist.rx_before + 2]

\* w with bits 24 .. 31 cleared.
Low24(w) == [i \in BitIdx |-> IF i < 24 THEN w[i] ELSE 0]

\* C6: a recv_work_result that read word1 and word2 returns nonce = word1,
\* no ntime, result_id = word2 with bits 24..31 cleared and midstate_idx =
\* (word2 >> 8) & ((1 << mbits) - 1), which is below 1 << mbits and is the
\* midstate index decoded from the returned result_id.
C6_RecvResultFields ==
    RecvResult =>
        LET r == RetVal[1]
            m == midstate_count_bits
        IN  /\ RecvTaken = 2
            /\ r.nonce = Word1
            /\ r.ntime = None
            /\ r.result_id = Low24(Word2)
            /\ r.midstate_idx = (LowNat(Word2, 31) \div 256) % Pow2(m)
            /\ r.midstate_idx < Pow2(m)
            /\ r.midstate_idx = get_midstate_idx_from_result_id(r.result_id)

\* A result whose second word has its top byte set, on a board with four
\* midstates.
C6_Witness ==
    /\ RecvResult
    /\ midstate_count_bits = 2
    /\ Word2 = U32Top(2130707455)
    /\ RetVal[1].midstate_idx = 3

\* C7: the pipeline resumes after an absent read.  The work RX FIFO always
\* holds exactly the words pushed and not yet read, in order; and a
\* recv_work_result that follows an absent one and finds a complete result
\* in the FIFO returns its two words (or fails in the heartbeat tick before
\* reading anything).
C7_ResumableAfterAbsent ==
    /\ work_rx_fifo = SubSeq(hist.rx_stream, hist.rx_taken + 1,
                             Len(hist.rx_stream))
    /\ (RecvReturned /\ hist.after_absent /\ hist.rx_avail >= 2) =>
           \/ /\ ret.status = "err"
              /\ ret.err \in {"SystemTime", "VoltageCtrl"}
              /\ RecvTaken = 0
           \/ /\ RecvResult
              /\ RetVal[1].nonce = Word1
              /\ RetVal[1].result_id = Low24(Word2)
              /\ RecvTaken = 2

\* An absent read followed by a read that returns the result pushed since.
C7_Witness ==
    /\ RecvResult
    /\ hist.after_absent
    /\ hist.rx_before = 0
    /\ hist.rx_avail = 2

\* recv_ctl_cmd_resp, called on its own, has returned.
CtlReturned == pc = "idle" /\ ret.op = "recv_ctl_cmd_resp"

\* Words the last recv_ctl_cmd_resp took from the command RX FIFO.
CtlTaken == hist.cmd_taken - hist.cmd_before

\* Both polls of the first read found the FIFO empty.
CtlFirstTimedOut == hist.cmd_polls = <<TRUE, TRUE>>

\* A second read was made and both its polls found the FIFO empty.
CtlSecondTimedOut ==
    /\ Len(hist.cmd_polls) >= 3
    /\ hist.cmd_polls[Len(hist.cmd_polls)]
    /\ hist.cmd_polls[Len(hist.cmd_polls) - 1]

\* Byte k (0 .. 7) of the two words the hardware pushed for the last
\* recv_ctl_cmd_resp, the first word's least significant byte being byte 0.
PushedByte(k) ==
    LET w == hist.cmd_stream[hist.cmd_before + 1 + (k \div 4)]
        b == 8 * (k % 4)
    IN  w[b] + 2 * w[b + 1] + 4 * w[b + 2] + 8 * w[b + 3] + 16 * w[b + 4]
            + 32 * w[b + 5] + 64 * w[b + 6] + 128 * w[b + 7]

\* C8: recv_ctl_cmd_resp returns Ok(None) exactly when its first read timed
\* out, having made no second read and taken no word; when the second read
\* times out it returns the TimedOut error; otherwise it has taken exactly two
\* words and what it returns is decoded from bytes 0 .. 5 of the two words
\* laid out little-endian: the revision from bytes 0 .. 1, the metadata from
\* bytes 2 .. 5, bytes 6 and 7 playing no part.
C8_RecvCtlCmdResp ==
    CtlReturned =>
        /\ (ret = Ok("recv_ctl_cmd_resp", Some(None))) <=> CtlFirstTimedOut
        /\ CtlFirstTimedOut => CtlTaken = 0
        /\ CtlSecondTimedOut =>
               ret = Err("recv_ctl_cmd_resp", "TimedOut") /\ CtlTaken = 1
        /\ (~CtlFirstTimedOut /\ ~CtlSecondTimedOut) =>
               /\ CtlTaken = 2
               /\ LET rev == <<PushedByte(0), PushedByte(1)>>
                      meta == <<PushedByte(2), PushedByte(3), PushedByte(4),
                                PushedByte(5)>>
                  IN  ret = IF rev \in {ChipRevBm1387, ChipRevOther}
                            THEN Ok("recv_ctl_cmd_resp",
                                    Some(Some([chip_rev |-> rev, meta |-> meta])))
                            ELSE Err("recv_ctl_cmd_resp", "Unpacking")

\* A response was returned whose second word came after a sleep and carried
\* a checksum and a pad byte with every bit set somewhere.
C8_Witness ==
    /\ CtlReturned
    /\ ret = Ok("recv_ctl_cmd_resp",
                Some(Some([chip_rev |-> ChipRevOther, meta |-> <<144, 1, 4, 2>>])))
    /\ hist.cmd_polls = <<FALSE, TRUE, FALSE>>
    /\ hist.cmd_before = 2

\* enumerate_chips has returned.
EnumReturned == hist.enum_ret.status # "none"

\* C9 as claimed: when enumerate_chips (hence init) returns success,
\* chip_count is the number of responses received before the first absent
\* read, each of two words, and 0 < chip_count < 64; when the receive loop
\* ended on an absent read after zero responses enumerate_chips fails with the
\* no-chips error, and after 64 or more with the too-many-chips error.
C9_EnumerateAsClaimed ==
    /\ (ret = Ok("init", None)) => hist.enum_ret.status = "ok"
    /\ hist.enum_ret.status = "ok" =>
           /\ chip_count = hist.resps
           /\ 2 * chip_count = hist.cmd_taken
           /\ 0 < chip_count /\ chip_count < MAX_CHIPS_ON_CHAIN
    /\ (EnumReturned /\ hist.enum_done /\ hist.resps = 0) =>
           hist.enum_ret = Err("enumerate_chips", "NoChips")
    /\ (EnumReturned /\ hist.enum_done /\ hist.resps >= MAX_CHIPS_ON_CHAIN) =>
           hist.enum_ret = Err("enumerate_chips", "TooManyChips")

\* The errors of a heartbeat tick.
HeartbeatErrors == {"SystemTime", "VoltageCtrl"}

\* C9: when enumerate_chips (hence init) returns success, chip_count is the
\* number of responses received before the first absent read, each of two
\* words, and 0 < chip_count < 64; when the receive loop ended on an absent
\* read after zero responses, or after 64 or more, enumerate_chips fails: with
\* the error of the heartbeat tick that precedes the checks if that tick
\* fails, and otherwise with the no-chips, respectively the too-many-chips,
\* error.
C9_EnumerateChipCount ==
    /\ (ret = Ok("init", None)) => hist.enum_ret.status = "ok"
    /\ hist.enum_ret.status = "ok" =>
           /\ chip_count = hist.resps
           /\ 2 * chip_count = hist.cmd_taken
           /\ 0 < chip_count /\ chip_count < MAX_CHIPS_ON_CHAIN
    /\ (EnumReturned /\ hist.enum_done /\ hist.resps = 0) =>
           /\ hist.enum_ret.status = "err"
           /\ hist.enum_ret.err \in {"NoChips"} \cup HeartbeatErrors
    /\ (EnumReturned /\ hist.enum_done /\ hist.resps >= MAX_CHIPS_ON_CHAIN) =>
           /\ hist.enum_ret.status = "err"
           /\ hist.enum_ret.err \in {"TooManyChips"} \cup HeartbeatErrors
    /\ (EnumReturned /\ hist.enum_done /\ hist.enum_ret.err \notin HeartbeatErrors) =>
           /\ hist.resps = 0 => hist.enum_ret.err = "NoChips"
           /\ hist.resps >= MAX_CHIPS_ON_CHAIN => hist.enum_ret.err = "TooManyChips"

\* init succeeded on a chain of which 63 chips answered in time.
C9_Witness ==
    /\ ret = Ok("init", None)
    /\ chip_count = MAX_CHIPS_ON_CHAIN - 1
    /\ chain.chips > chip_count

\* The entries of hwlog that init and ip_core_init made themselves.
ByInit(e) == e.by \in {"init", "ip_core_init"}

\* C10: when init returns success, its own actions and those of
\* ip_core_init were, in this order: ip_core_init (disable IP core, enable IP
\* core, set_baud, set_work_time(50000), set_midstate_count); voltage
\* controller reset, jump_from_loader_to_app, get_version, set_voltage(6),
\* enable_voltage; enter_reset, disable_voltage, sleep 1000 ms,
\* enable_voltage, sleep 2000 ms, heartbeat tick; exit_reset, sleep 1000 ms;
\* enumerate_chips; set_pll; configure_hash_chain, whose command was sent
\* last and waited for until the command TX FIFO was empty.
C10_InitOrder ==
    (ret = Ok("init", None)) =>
        /\ SelectSeq(hwlog, ByInit) =
               <<Hw("init", "ip_core_init", 0),
                 Hw("ip_core_init", "disable_ip_core", 0),
                 Hw("ip_core_init", "enable_ip_core", 0),
                 Hw("ip_core_init", "set_baud", 115200),
                 Hw("ip_core_init", "set_work_time", 50000),
                 Hw("ip_core_init", "set_midstate_count", 0),
                 Hw("init", "voltage_ctrl.reset", 0),
                 Hw("init", "voltage_ctrl.jump_from_loader_to_app", 0),
                 Hw("init", "voltage_ctrl.get_version", 0),
                 Hw("init", "voltage_ctrl.set_voltage", 6),
                 Hw("init", "voltage_ctrl.enable_voltage", 0),
                 Hw("init", "enter_reset", 0),
                 Hw("init", "voltage_ctrl.disable_voltage", 0),
                 Hw("init", "sleep", 1000),
                 Hw("init", "voltage_ctrl.enable_voltage", 0),
                 Hw("init", "sleep", 2000),
                 Hw("init", "send_voltage_ctrl_heart_beat", 0),
                 Hw("init", "exit_reset", 0),
                 Hw("init", "sleep", 1000),
                 Hw("init", "enumerate_chips", 0),
                 Hw("init", "set_pll", 0),
                 Hw("init", "configure_hash_chain", 0)>>
        /\ Len(hwlog) >= 2
        /\ hwlog[Len(hwlog) - 1] =
               Hw("configure_hash_chain", "SetConfigCmd.MISC_CONTROL_REG", 0)
        /\ hwlog[Len(hwlog)] = Hw("send_ctl_cmd", "cmd_tx_empty", 0)
        /\ cmd_tx_fifo = <<>>

\* init succeeded on a board configured for four midstates, with two chips.
C10_Witness ==
    /\ ret = Ok("init", None)
    /\ ctrl_reg = [enable |-> TRUE, midstate_cnt |-> 2]
    /\ chip_count = 2

\* C11: whenever the reset pin is low, the IP core's enable bit is clear.
C11_ResetImpliesDisabled == rst_pin = "low" => ~ctrl_reg.enable

\* The time the board has been powered with no heartbeat sent, as far as the
\* log shows it: the sleeps logged since the later of the last
\* enable_voltage and the last heartbeat sent; -1 when the voltage is off.
RECURSIVE PoweredSilence(_)
PoweredSilence(log) ==
    IF log = <<>> THEN -1
    ELSE LET before == PoweredSilence(SubSeq(log, 1, Len(log) - 1))
             e == log[Len(log)]
         IN  IF e.act = "voltage_ctrl.enable_voltage" THEN 0
             ELSE IF e.act = "voltage_ctrl.disable_voltage" THEN -1
             ELSE IF before < 0 THEN -1
             ELSE IF e.act = "send_heart_beat" THEN 0
             ELSE IF e.act = "sleep" THEN before + e.arg
             ELSE before

\* C12: while the voltage is on, no more than 1000 ms pass without a
\* heartbeat sent to the voltage controller.
C12_HeartbeatEverySecond == PoweredSilence(hwlog) <= HEARTBEAT_PERIOD_MS

\* Two consecutive send_work / recv_work_result calls have both succeeded,
\* the second one just now, and the caller stayed idle for more than
\* HEARTBEAT_PERIOD_MS between them.
TwoCallsFarApart ==
    /\ pc = "idle"
    /\ ret.status = "ok" /\ ret.op \in {"send_work", "recv_work_result"}
    /\ hist.hb_prev >= 0
    /\ hist.hb_gap > HEARTBEAT_PERIOD_MS

\* C13 as claimed: exactly one heartbeat from the start of the first of the
\* two calls to the end of the second.
C13_OneHeartbeatAsClaimed ==
    TwoCallsFarApart => hist.hb_prev + Beats(hwlog) = 1

\* C13: of two consecutive successful calls more than 1 s apart the second
\* sends exactly one heartbeat, so exactly one is sent from the end of the
\* first call to the end of the second; the first call itself sent one or
\* none.
C13_OneHeartbeatPerGap ==
    TwoCallsFarApart => /\ Beats(hwlog) = 1
                        /\ hwlog[2] = Hw("send_voltage_ctrl_heart_beat",
                                         "send_heart_beat", 0)
                        /\ hist.hb_prev \in {0, 1}
                        /\ last_heartbeat_sent # None

\* Both kinds of pair happen: the first call sent a heartbeat of its own, or
\* it did not, and a send_work follows a recv_work_result.
C13_Witness ==
    /\ TwoCallsFarApart
    /\ hist.hb_prev = 1
    /\ Beats(hwlog) = 1
    /\ ret.op = "send_work"
    /\ hist.polls # <<>>

\* C14: in a run of at most 2^16 / (1 << midstate_count_bits) consecutive
\* successful send_work calls every call returns the work_id of the first
\* one advanced by 1 << midstate_count_bits per call, modulo 2^16, which is
\* a work_id no other call of the run returned: the work_ids of the run are
\* pairwise distinct.
C14_WindowIdsDistinct ==
    (pc = "idle" /\ SentOk(ret) /\ hist.win_len <= WrapPeriod)
        => LET id == ToNat(RetVal)
               IdAt(k) == (hist.win_first + (k - 1) * Pow2(midstate_count_bits))
                              % Pow2(U16_BITS)
           IN  /\ id = IdAt(hist.win_len)
               /\ hist.win_len >= 2 => id # hist.win_first
               /\ \A k \in {1, hist.win_len \div 2, hist.win_len - 1} :
                      (1 <= k /\ k < hist.win_len) => IdAt(k) # id

\* A full period of successful calls that went through the wrap of the
\* counter.
C14_Witness ==
    /\ pc = "idle" /\ SentOk(ret)
    /\ hist.win_len = WrapPeriod
    /\ 0 < hist.win_first
    /\ ToNat(RetVal) < hist.win_first
    /\ midstate_count_bits = 2

\* C15: when the second word recv_work_result read is a result id laid out
\* for the work_id w the last send_work returned, get_work_id_from_result of
\* the returned result is w.
C15_WorkIdRecovered ==
    (/\ pc = "idle"
     /\ ret.op = "get_work_id_from_result"
     /\ hist.rx_stream[hist.rx_taken] \in LayoutWords)
        => RetVal = hist.sw_last.val[1]

\* new() has just returned.
NewReturned == pc = "idle" /\ ret.op = "new"

\* What new() did to pins and memory, according to the log.
NewActs == {hwlog[i].act : i \in 1 .. Len(hwlog)}

\* C16: new() on a board whose plug pin is low fails having acquired no
\* reset pin and opened and mapped nothing, with the not-present error once
\* it has read the pin; a new() that succeeds yields work_id 0, chip_count 0
\* and no heartbeat timestamp.
C16_NewChecksPlugFirst ==
    NewReturned =>
        /\ plug_pin = "low" =>
               /\ ret.status = "err"
               /\ NewActs \cap {"get_pin_out", "open_dev_mem", "mmap"} = {}
               /\ "plug_is_low" \in NewActs => ret = Err("new", "NotPresent")
               /\ ctl = "none"
        /\ ret.status = "ok" =>
               /\ ctl = "live"
               /\ plug_pin = "high"
               /\ work_id = 0
               /\ chip_count = 0
               /\ last_heartbeat_sent = None

\* new() found the plug pin low.
C16_Witness ==
    /\ NewReturned
    /\ plug_pin = "low"
    /\ hwlog = <<Hw("new", "get_pin_in", 0), Hw("new", "plug_is_low", 0)>>
    /\ ret = Err("new", "NotPresent")

\* The registers before the direct call that has just returned.
RegsBefore == hist.regs[1]

\* C17: after ip_core_init, whatever the registers held before, work_time is
\* 50000, baud_reg is 0x1b, ctrl_reg.midstate_cnt is the configured value and
\* ctrl_reg.enable is set; set_baud leaves 0x1b whatever the rate;
\* enable_ip_core and disable_ip_core leave midstate_cnt as it was, and
\* set_midstate_count leaves the enable bit as it was.
C17_IpCoreInitRegisters ==
    hist.regs # None =>
        /\ ret.op = "ip_core_init" =>
               /\ work_time = WORK_TIME_INIT
               /\ baud_reg = BAUD_DIV_115200
               /\ ctrl_reg = [enable |-> TRUE, midstate_cnt |-> midstate_count_bits]
        /\ ret.op = "set_baud" => baud_reg = BAUD_DIV_115200
        /\ ret.op = "enable_ip_core" =>
               ctrl_reg = [enable |-> TRUE,
                           midstate_cnt |-> RegsBefore.ctrl_reg.midstate_cnt]
        /\ ret.op = "disable_ip_core" =>
               ctrl_reg = [enable |-> FALSE,
                           midstate_cnt |-> RegsBefore.ctrl_reg.midstate_cnt]
        /\ ret.op = "set_midstate_count" =>
               ctrl_reg = [enable |-> RegsBefore.ctrl_reg.enable,
                           midstate_cnt |-> midstate_count_bits]

\* ip_core_init ran on registers none of which held what it leaves, for two
\* midstates.
C17_Witness ==
    /\ ret.op = "ip_core_init"
    /\ hist.regs # None
    /\ RegsBefore.ctrl_reg = [enable |-> FALSE, midstate_cnt |-> 3]
    /\ RegsBefore.baud_reg = 255
    /\ RegsBefore.work_time = 1
    /\ midstate_count_bits = 1
    /\ ctrl_reg = [enable |-> TRUE, midstate_cnt |-> 1]

\* C18: no step of a controller's life makes chip_count smaller.
C18_ChipCountNeverDecreases ==
    [][(ctl = "live" /\ ctl' = "live") => chip_count' >= chip_count]_vars

\* C19: no mapping of the register block is left once the controller is
\* dropped, and a controller in use holds one at most.
C19_MappingReleasedOnDrop ==
    /\ ctl = "none" => hist.mappings = 0
    /\ ctl # "none" => hist.mappings <= 1

\* A command enumerate_chips sent, or a sleep it made.
IsEnumCmd(e) ==
    /\ e.by = "enumerate_chips"
    /\ e.act \in {"GetStatusCmd", "InactivateFromChainCmd", "SetChipAddressCmd",
                  "sleep"}

\* The commands and sleeps of enumerate_chips so far, in order.
EnumCmds == SelectSeq(hwlog, IsEnumCmd)

\* The three broadcasts that take the chips off the chain, 100 ms apart.
ThreeInactivates ==
    [k \in 1 .. 2 * INACTIVATE_REPEAT |->
        IF k % 2 = 1 THEN Hw("enumerate_chips", "InactivateFromChainCmd", 0)
        ELSE Hw("enumerate_chips", "sleep", INACTIVATE_FROM_CHAIN_DELAY_MS)]

\* C20: enumerate_chips reads no response before it has sent the GetStatus
\* broadcast, sends no InactivateFromChain before the responses have ceased
\* and the bounds check has passed, and when it succeeds its commands were:
\* the broadcast, three InactivateFromChain each followed by 100 ms of sleep,
\* and SetChipAddress for 0, 4, ..., 4 * (chip_count - 1) in this order, none
\* above 252.
C20_EnumerateCommands ==
    /\ hist.cmd_taken > 0 =>
           /\ EnumCmds # <<>>
           /\ EnumCmds[1] = Hw("enumerate_chips", "GetStatusCmd", 0)
    /\ Len(EnumCmds) > 1 =>
           /\ hist.enum_done
           /\ 0 < chip_count /\ chip_count < MAX_CHIPS_ON_CHAIN
           /\ chip_count = hist.resps
    /\ hist.enum_ret.status = "ok" =>
           /\ EnumCmds = <<Hw("enumerate_chips", "GetStatusCmd", 0)>>
                  \o ThreeInactivates
                  \o [i \in 1 .. chip_count |->
                         Hw("enumerate_chips", "SetChipAddressCmd", 4 * (i - 1))]
           /\ 4 * (chip_count - 1) <= 252

\* An enumeration of the longest chain that passes the bounds check
\* succeeded.
C20_Witness ==
    /\ hist.enum_ret.status = "ok"
    /\ chip_count = MAX_CHIPS_ON_CHAIN - 1
    /\ hist.cmd_taken = 2 * chip_count
    /\ EnumCmds[Len(EnumCmds)].arg = 248

\* The responses enumerate_chips received so far whose revision is not
\* BM1387, by their position.
OtherRevResps == {i \in 1 .. hist.resps : ChainRev(i) # ChipRevBm1387}

\* The commands that follow the receive loop of enumerate_chips, in
\* enumerate_chips, set_pll and configure_hash_chain.
AfterEnumCmds ==
    {"InactivateFromChainCmd", "SetChipAddressCmd", "SetConfigCmd.PLL_PARAM_REG",
     "SetConfigCmd.MISC_CONTROL_REG"}

\* C21: as long as every response received carries revision BM1387,
\* chip_count is the number of responses received; the first response of
\* another revision ends the enumeration (and init) with the revision error
\* at once: it is not counted, it is the last one read (two words per
\* response, none after it), and no InactivateFromChain, SetChipAddress, PLL
\* or misc-control command was sent.
C21_EnumerateStopsOnOtherRev ==
    /\ OtherRevResps = {} => chip_count = hist.resps
    /\ OtherRevResps # {} =>
           /\ OtherRevResps = {hist.resps}
           /\ chip_count = hist.resps - 1
           /\ hist.cmd_taken = 2 * hist.resps
           /\ pc = "idle"
           /\ ret = Err("init", "UnexpectedChipRev")
           /\ hist.enum_ret = Err("enumerate_chips", "UnexpectedChipRev")
           /\ \A i \in 1 .. Len(hwlog) : hwlog[i].act \notin AfterEnumCmds

\* The second chip of a long chain answered with another revision, and the
\* chips after it have answered since without being read.
C21_Witness ==
    /\ hist.enum_ret = Err("enumerate_chips", "UnexpectedChipRev")
    /\ chip_count = 1
    /\ hist.resps = 2
    /\ chain.sent > hist.cmd_taken
    /\ cmd_rx_fifo # <<>>

\* init has returned an error.
InitFailed == pc = "idle" /\ ret.op = "init" /\ ret.status = "err"

\* The steps of a successful init, those of ip_core_init among them.
InitSteps ==
    <<Hw("init", "ip_core_init", 0),
      Hw("ip_core_init", "disable_ip_core", 0),
      Hw("ip_core_init", "enable_ip_core", 0),
      Hw("ip_core_init", "set_baud", 115200),
      Hw("ip_core_init", "set_work_time", 50000),
      Hw("ip_core_init", "set_midstate_count", 0),
      Hw("init", "voltage_ctrl.reset", 0),
      Hw("init", "voltage_ctrl.jump_from_loader_to_app", 0),
      Hw("init", "voltage_ctrl.get_version", 0),
      Hw("init", "voltage_ctrl.set_voltage", 6),
      Hw("init", "voltage_ctrl.enable_voltage", 0),
      Hw("init", "enter_reset", 0),
      Hw("init", "voltage_ctrl.disable_voltage", 0),
      Hw("init", "sleep", 1000),
      Hw("init", "voltage_ctrl.enable_voltage", 0),
      Hw("init", "sleep", 2000),
      Hw("init", "send_voltage_ctrl_heart_beat", 0),
      Hw("init", "exit_reset", 0),
      Hw("init", "sleep", 1000),
      Hw("init", "enumerate_chips", 0),
      Hw("init", "set_pll", 0),
      Hw("init", "configure_hash_chain", 0)>>

IsPrefix(s, t) == Len(s) <= Len(t) /\ s = SubSeq(t, 1, Len(s))

\* The last hardware action of the call.
LastAct == hwlog[Len(hwlog)]

HwActs == {hwlog[i].act : i \in 1 .. Len(hwlog)}

\* The errors of the receive loop of enumerate_chips, and of its checks.
EnumRecvErrors == {"TimedOut", "Unpacking", "UnexpectedChipRev"}

EnumCheckErrors == {"TooManyChips", "NoChips"}

\* C22: when init returns an error, the steps it took are a beginning of the
\* steps of a successful init and the failed step is the last thing it did:
\* a voltage-controller command or a heartbeat for a voltage-controller
\* error, the heartbeat tick for a clock error, the receive loop after the
\* GetStatus broadcast for a receive error, the tick before the chip_count
\* checks for a count error (no command of the later steps sent); after a
\* version mismatch nothing came after get_version: no set_voltage, no
\* enable_voltage, and the reset pin was not driven.
C22_InitShortCircuits ==
    InitFailed =>
        /\ hwlog # <<>>
        /\ IsPrefix(SelectSeq(hwlog, ByInit), InitSteps)
        /\ ret.err \in {"UnexpectedVersion"} \cup HeartbeatErrors
                       \cup EnumRecvErrors \cup EnumCheckErrors
        /\ ret.err = "UnexpectedVersion" =>
               /\ hwlog = SubSeq(InitSteps, 1, 9)
               /\ LastAct.act = "voltage_ctrl.get_version"
               /\ HwActs \cap {"voltage_ctrl.set_voltage",
                                "voltage_ctrl.enable_voltage",
                                "rst_pin.set_low", "rst_pin.set_high"} = {}
               /\ rst_pin = "high"
        /\ ret.err = "VoltageCtrl" =>
               \/ LastAct.by = "init" /\ LastAct.act \in VoltageCtrlActs
               \/ LastAct = Hw("send_voltage_ctrl_heart_beat", "send_heart_beat", 0)
        /\ ret.err = "SystemTime" =>
               LastAct.act = "send_voltage_ctrl_heart_beat"
        /\ ret.err \in EnumRecvErrors =>
               LastAct = Hw("enumerate_chips", "GetStatusCmd", 0)
        /\ ret.err \in EnumCheckErrors =>
               /\ LastAct.act \in {"send_voltage_ctrl_heart_beat", "send_heart_beat"}
               /\ HwActs \cap AfterEnumCmds = {}
        /\ "enumerate_chips" \notin HwActs =>
               /\ cmd_tx_fifo = <<>>
               /\ chain.asked = FALSE

\* init stopped at a version mismatch.
C22_Witness ==
    /\ InitFailed
    /\ ret.err = "UnexpectedVersion"
    /\ Len(hwlog) = 9
    /\ ctrl_reg.enable

\* This step is the beginning of a send_work or recv_work_result that ticks
\* the heartbeat.
StepTicks ==
    /\ pc = "idle"
    /\ hist'.calls = hist.calls + 1
    /\ hwlog' # <<>>
    /\ hwlog'[1].act = "send_voltage_ctrl_heart_beat"

\* The time the call slept after its tick, within the step.
SleptAfterTick == IF pc' = "recv_sleep1" THEN RX_POLL_SLEEP_MS ELSE 0

\* C23: the first tick on a controller sets last_heartbeat_sent and sends
\* nothing; a later tick sends a heartbeat if and only if the clock reports
\* at least 1000 ms since last_heartbeat_sent, and then last_heartbeat_sent
\* is the time of the tick; a later tick that sends nothing leaves
\* last_heartbeat_sent as it was.  No tick sends more than one heartbeat.
C23_LazyHeartbeat ==
    [][StepTicks =>
          LET t == last_heartbeat_sent
              sent == Beats(hwlog') > 0
              clock_err == ret'.err = "SystemTime"
          IN  /\ Beats(hwlog') <= 1
              /\ t = None =>
                     /\ ~sent
                     /\ last_heartbeat_sent' = Elapse(Some(0), SleptAfterTick)
              /\ t # None =>
                     /\ sent <=> (t[1] >= HEARTBEAT_PERIOD_MS /\ ~clock_err)
                     /\ sent => last_heartbeat_sent'
                                    = Elapse(Some(0), SleptAfterTick)
                     /\ ~sent => last_heartbeat_sent'
                                     = Elapse(t, SleptAfterTick)]_vars

\* The first call of a controller ticked without sending, and the next call,
\* a second or more later, sent a heartbeat and restarted the period.
C23_Witness ==
    /\ pc = "idle"
    /\ ret.status = "ok"
    /\ hist.calls = 2
    /\ hist.hb_prev = 0
    /\ hist.hb_gap >= HEARTBEAT_PERIOD_MS
    /\ Beats(hwlog) = 1
    /\ last_heartbeat_sent = Some(0)

\* This step is a whole send_work call that returned an error.
StepSendFails ==
    /\ pc = "idle" /\ pc' = "idle"
    /\ hist'.calls = hist.calls + 1
    /\ ret'.op = "send_work" /\ ret'.status = "err"

\* C24: a send_work that fails in the heartbeat tick has written no word to
\* the work TX FIFO and leaves the work_id counter as it was.
C24_FailedSendKeepsWorkId ==
    [][StepSendFails => /\ work_tx_fifo' = work_tx_fifo
                        /\ work_id' = work_id]_vars

\* The last call was (or the call in progress is) a send_ctl_cmd.
InSendCtlCmd == frame.op = "send_ctl_cmd"

SendCtlCmdReturned == InSendCtlCmd /\ pc = "idle"

\* The FIFO writes of the send_ctl_cmd so far.
CtlCmdWrites == [k \in 1 .. Len(hwlog) |-> hwlog[k].arg]

\* C25: send_ctl_cmd never writes a word of a command whose length is not a
\* multiple of 4: it panics on the assertion; of an aligned command it
\* writes the chunks of four bytes in order, the word written for a chunk
\* holding the chunk's bytes least significant first, each write finding
\* cmd_tx_full clear, and when it returns it has written len / 4 words;
\* with wait it returns with the command TX FIFO empty.
C25_SendCtlCmdWords ==
    InSendCtlCmd =>
        LET cmd == frame.cmd
        IN  /\ Len(cmd) % 4 # 0 =>
                   /\ hwlog = <<>>
                   /\ ret.status = "panic"
                   /\ pc = "panicked"
            /\ Len(cmd) % 4 = 0 => ret.status # "panic"
            /\ 4 * Len(hwlog) <= Len(cmd)
            /\ \A k \in 1 .. Len(hwlog) :
                   /\ hwlog[k].act = "cmd_tx_fifo.write"
                   /\ LeBytes(CtlCmdWrites[k].word) = SubSeq(cmd, 4 * k - 3, 4 * k)
                   /\ ~CtlCmdWrites[k].full
            /\ SendCtlCmdReturned =>
                   /\ ret = Ok("send_ctl_cmd", None)
                   /\ 4 * Len(hwlog) = Len(cmd)
                   /\ frame.wait => cmd_tx_fifo = <<>>

\* A command of three words has been sent and waited for, after an earlier
\* call.
C25_Witness ==
    /\ SendCtlCmdReturned
    /\ frame.wait
    /\ Len(frame.cmd) = 12
    /\ Len(hwlog) = 3
    /\ hist.calls = 2

\* C26: every result recv_work_result returns is made of the two words of
\* one hardware result: the words it took are words 2i and 2i + 1 of the
\* work RX stream (counted from 0), the nonce first.
C26_ResultFraming ==
    RecvResult =>
        /\ hist.rx_before % 2 = 0
        /\ RetVal[1].nonce = NonceOf(hist.rx_before \div 2)
        /\ RetVal[1].result_id = Low24(hist.rx_stream[hist.rx_before + 2])

====
